---- MODULE Spec2Model ----
(***************************************************************************)
(* A model of MAPLEAF/IO/simDefinition.py: the SimDefinition class (the    *)
(* line parser, !include / !create handling, value lookup, probabilistic   *)
(* resampling, writeToFile) and the string-key helper functions.           *)
(*                                                                         *)
(* Python strings are sequences of one-character strings, so that          *)
(* str.replace, str.split, str.strip, slicing and comparison are modelled  *)
(* by what they do.  A Python dict is a sequence of [k, v] records in      *)
(* insertion order with unique keys.                                       *)
(***************************************************************************)
EXTENDS Integers, Sequences, FiniteSets, TLC

(***************************************************************************)
(* Python str                                                              *)
(***************************************************************************)

\* The characters used, in code-point order (Python compares strings by it).
Alphabet ==
    << "\t", " ", "!", "\"", "#", "'", "(", ")", "-", ".", "/",
       "0", "1", "2", "3", "4", "5", "6", "7", "8", "9", ":",
       "A", "B", "C", "D", "E", "F", "G", "H", "I", "J", "K", "L", "M",
       "N", "O", "P", "Q", "R", "S", "T", "U", "V", "W", "X", "Y", "Z",
       "\\", "_",
       "a", "b", "c", "d", "e", "f", "g", "h", "i", "j", "k", "l", "m",
       "n", "o", "p", "q", "r", "s", "t", "u", "v", "w", "x", "y", "z",
       "{", "}" >>

CharOrd(c) == CHOOSE n \in 1..Len(Alphabet) : Alphabet[n] = c

\* a < b for Python strings
RECURSIVE StrLess(_, _)
StrLess(a, b) ==
    IF b = <<>> THEN FALSE
    ELSE IF a = <<>> THEN TRUE
    ELSE IF Head(a) = Head(b) THEN StrLess(Tail(a), Tail(b))
    ELSE CharOrd(Head(a)) < CharOrd(Head(b))

IsSpace(c) == c \in {" ", "\t"}

\* s[n:]
Drop(s, n) == SubSeq(s, n + 1, Len(s))

\* s[:n]
Take(s, n) == SubSeq(s, 1, IF n < Len(s) THEN n ELSE Len(s))

StartsWith(s, p) == Len(p) <= Len(s) /\ SubSeq(s, 1, Len(p)) = p

EndsWith(s, p) == Len(p) <= Len(s) /\ SubSeq(s, Len(s) - Len(p) + 1, Len(s)) = p

\* sub in s
Contains(sub, s) ==
    \E n \in 1..(Len(s) - Len(sub) + 1) : SubSeq(s, n, n + Len(sub) - 1) = sub

\* s.strip()
RECURSIVE LStrip(_)
LStrip(s) == IF s # <<>> /\ IsSpace(Head(s)) THEN LStrip(Tail(s)) ELSE s

RECURSIVE RStrip(_)
RStrip(s) ==
    IF s # <<>> /\ IsSpace(s[Len(s)]) THEN RStrip(SubSeq(s, 1, Len(s) - 1)) ELSE s

Strip(s) == RStrip(LStrip(s))

\* sep.join(parts)
RECURSIVE Join(_, _)
Join(parts, sep) ==
    IF parts = <<>> THEN <<>>
    ELSE IF Len(parts) = 1 THEN parts[1]
    ELSE parts[1] \o sep \o Join(Tail(parts), sep)

\* s.split(c) for a one-character separator: empty pieces are kept
RECURSIVE SplitAcc(_, _, _)
SplitAcc(s, c, cur) ==
    IF s = <<>> THEN << cur >>
    ELSE IF Head(s) = c THEN << cur >> \o SplitAcc(Tail(s), c, <<>>)
    ELSE SplitAcc(Tail(s), c, Append(cur, Head(s)))

Split(s, c) == SplitAcc(s, c, <<>>)

\* s.split(): pieces between runs of whitespace, no empty piece
RECURSIVE SplitWsAcc(_, _)
SplitWsAcc(s, cur) ==
    IF s = <<>> THEN (IF cur = <<>> THEN <<>> ELSE << cur >>)
    ELSE IF IsSpace(Head(s))
         THEN (IF cur = <<>> THEN <<>> ELSE << cur >>) \o SplitWsAcc(Tail(s), <<>>)
    ELSE SplitWsAcc(Tail(s), Append(cur, Head(s)))

SplitWs(s) == SplitWsAcc(s, <<>>)

\* s.replace(old, new): every non-overlapping occurrence, left to right; an
\* empty old matches before every character and at the end.
RECURSIVE ReplaceNonEmpty(_, _, _)
ReplaceNonEmpty(s, old, new) ==
    IF Len(s) < Len(old) THEN s
    ELSE IF StartsWith(s, old)
         THEN new \o ReplaceNonEmpty(Drop(s, Len(old)), old, new)
    ELSE << Head(s) >> \o ReplaceNonEmpty(Tail(s), old, new)

RECURSIVE ReplaceEmpty(_, _)
ReplaceEmpty(s, new) ==
    IF s = <<>> THEN new ELSE new \o << Head(s) >> \o ReplaceEmpty(Tail(s), new)

Replace(s, old, new) ==
    IF old = <<>> THEN ReplaceEmpty(s, new) ELSE ReplaceNonEmpty(s, old, new)

(***************************************************************************)
(* Python dict: insertion-ordered, unique keys                             *)
(***************************************************************************)

EmptyDict == <<>>

DictKeys(d) == [n \in 1..Len(d) |-> d[n].k]

KeySet(d) == { d[n].k : n \in 1..Len(d) }

DictHas(d, key) == \E n \in 1..Len(d) : d[n].k = key

DictGet(d, key) == d[CHOOSE n \in 1..Len(d) : d[n].k = key].v

\* d[key] = value
DictSet(d, key, value) ==
    IF DictHas(d, key)
    THEN [n \in 1..Len(d) |-> IF d[n].k = key THEN [k |-> key, v |-> value] ELSE d[n]]
    ELSE Append(d, [k |-> key, v |-> value])

\* del d[key]
RECURSIVE DictDel(_, _)
DictDel(d, key) ==
    IF d = <<>> THEN <<>>
    ELSE IF Head(d).k = key THEN Tail(d)
    ELSE << Head(d) >> \o DictDel(Tail(d), key)

\* d1 == d2 for Python dicts: same keys, same values, any order
DictEq(d1, d2) ==
    /\ KeySet(d1) = KeySet(d2)
    /\ \A key \in KeySet(d1) : DictGet(d1, key) = DictGet(d2, key)

(***************************************************************************)
(* Functions for dealing with string keys                                  *)
(***************************************************************************)

Dot == << "." >>

\* The mutant of isSubKey: the child starts with the parent, whatever follows
IsSubKeyByPrefix(potentialParent, potentialChild) ==
    IF potentialParent = <<>> THEN TRUE
    ELSE IF Len(potentialChild) <= Len(potentialParent) THEN FALSE
    ELSE Take(potentialChild, Len(potentialParent)) = potentialParent

isSubKey(potentialParent, potentialChild) ==
    IF potentialParent = <<>> THEN TRUE
    ELSE IF Len(potentialChild) <= Len(potentialParent) THEN FALSE
    ELSE /\ Take(potentialChild, Len(potentialParent)) = potentialParent
         /\ potentialChild[Len(potentialParent) + 1] = "."

getKeyLevel(key) == IF Len(key) = 0 THEN -1 ELSE Len(Split(key, ".")) - 1

getParentKeyAtLevel(key, desiredLevel) ==
    Join(Take(Split(key, "."), desiredLevel + 1), Dot)

\* The names before and after place n, joined again
JoinSplit(keyNames, n) ==
    << Join(Take(keyNames, n), Dot), Join(Drop(keyNames, n), Dot) >>

\* << prefix, suffix >>
splitKeyAtLevel(key, prefixLevel) == JoinSplit(Split(key, "."), prefixLevel + 1)

\* getSubKeys(key, Dict): the keys of Dict that are children of key, in
\* Dict's order
RECURSIVE getSubKeys(_, _)
getSubKeys(key, Dict) ==
    IF Dict = <<>> THEN <<>>
    ELSE (IF isSubKey(key, Head(Dict).k) THEN << Head(Dict).k >> ELSE <<>>)
         \o getSubKeys(key, Tail(Dict))

(***************************************************************************)
(* Text of a file: comment removal, blank lines, tokens                    *)
(***************************************************************************)

\* re.sub("(?<!\\)#.*", "", line): cut at the first # not preceded by a
\* backslash (prev is the character before s)
RECURSIVE RemoveComment(_, _)
RemoveComment(s, prev) ==
    IF s = <<>> THEN <<>>
    ELSE IF Head(s) = "#" /\ prev # "\\" THEN <<>>
    ELSE << Head(s) >> \o RemoveComment(Tail(s), Head(s))

\* re.sub(r"\\(?=#)", "", line): drop each backslash that precedes a #
RECURSIVE RemoveEscapes(_)
RemoveEscapes(s) ==
    IF s = <<>> THEN <<>>
    ELSE IF Len(s) >= 2 /\ s[1] = "\\" /\ s[2] = "#" THEN RemoveEscapes(Tail(s))
    ELSE << Head(s) >> \o RemoveEscapes(Tail(s))

NonBlank(line) == IF Strip(line) # <<>> THEN << line >> ELSE <<>>

\* The lines left of a file's raw lines: comments removed, blank lines dropped
RECURSIVE Preprocess(_)
Preprocess(rawLines) ==
    IF rawLines = <<>> THEN <<>>
    ELSE NonBlank(RemoveEscapes(RemoveComment(Head(rawLines), " ")))
         \o Preprocess(Tail(rawLines))

\* shlex.split(line): whitespace-separated tokens; a quoted stretch keeps its
\* whitespace and loses its quotes (q is the open quote, "" when none)
RECURSIVE ShlexAcc(_, _, _, _)
ShlexAcc(s, cur, inTok, q) ==
    IF s = <<>> THEN (IF inTok THEN << cur >> ELSE <<>>)
    ELSE IF q # ""
         THEN (IF Head(s) = q THEN ShlexAcc(Tail(s), cur, TRUE, "")
               ELSE ShlexAcc(Tail(s), Append(cur, Head(s)), TRUE, q))
    ELSE IF Head(s) \in {"\"", "'"} THEN ShlexAcc(Tail(s), cur, TRUE, Head(s))
    ELSE IF IsSpace(Head(s))
         THEN (IF inTok THEN << cur >> ELSE <<>>) \o ShlexAcc(Tail(s), <<>>, FALSE, "")
    ELSE ShlexAcc(Tail(s), Append(cur, Head(s)), TRUE, "")

ShlexSplit(line) == ShlexAcc(line, <<>>, FALSE, "")

\* removeQuotes(string), the helper of _parseDerivedDictionary
removeQuotes(string) == Replace(Replace(string, << "'" >>, <<>>), << "\"" >>, <<>>)

KwCreate == << "!", "c", "r", "e", "a", "t", "e" >>
KwInclude == << "!", "i", "n", "c", "l", "u", "d", "e" >>
KwReplace == << "!", "r", "e", "p", "l", "a", "c", "e" >>
KwRemoveKeysContaining ==
    << "!", "r", "e", "m", "o", "v", "e", "K", "e", "y", "s",
       "C", "o", "n", "t", "a", "i", "n", "i", "n", "g" >>

(***************************************************************************)
(* File paths                                                              *)
(***************************************************************************)

\* Path(string): the components of a path string; pathlib drops empty and
\* "." components and keeps ".."
RECURSIVE PathFilter(_)
PathFilter(parts) ==
    IF parts = <<>> THEN <<>>
    ELSE (IF Head(parts) \in {<<>>, Dot} THEN <<>> ELSE << Head(parts) >>)
         \o PathFilter(Tail(parts))

PathParts(string) == PathFilter(Split(string, "/"))

\* str(path); the empty path is "."
PathStr(parts) == IF parts = <<>> THEN Dot ELSE Join(parts, << "/" >>)

\* Path(string).parent
PathParent(parts) == IF parts = <<>> THEN <<>> ELSE Take(parts, Len(parts) - 1)

\* The directories of file system fs (a function from the component
\* sequences of its files to their raw lines)
IsDir(fs, dir) ==
    \E f \in DOMAIN fs : Len(f) > Len(dir) /\ Take(f, Len(dir)) = dir

NoFile == << << "?" >> >>

\* The file the operating system reaches by walking parts from the working
\* directory: ".." steps up from an existing directory; NoFile when the walk
\* leaves the tree or crosses a name that is no directory
RECURSIVE Walk(_, _, _)
Walk(fs, cur, parts) ==
    IF parts = <<>> THEN cur
    ELSE IF Head(parts) = << ".", "." >>
         THEN (IF cur = <<>> THEN NoFile ELSE Walk(fs, PathParent(cur), Tail(parts)))
    ELSE IF Len(parts) > 1 /\ ~IsDir(fs, Append(cur, Head(parts))) THEN NoFile
    ELSE Walk(fs, Append(cur, Head(parts)), Tail(parts))

\* path.exists()
IsFileOrDir(fs, f) == f \in DOMAIN fs \/ IsDir(fs, f)

PathExists(fs, parts) == IsFileOrDir(fs, Walk(fs, <<>>, parts))

\* The MAPLEAF installation directory, Path(__file__).parent.parent.parent
InstallDir == << << "i", "n", "s", "t" >> >>

\* The path found at the alternate location, else the relative path as it is
AlternatePath(fs, rel, alternateRelativeLocation, alternate) ==
    IF alternateRelativeLocation # <<>> /\ PathExists(fs, alternate)
    THEN PathStr(alternate) ELSE PathStr(rel)

ResolvedPath(fs, rel, alternateRelativeLocation, absolutePath) ==
    IF PathExists(fs, absolutePath) THEN PathStr(absolutePath)
    ELSE AlternatePath(fs, rel, alternateRelativeLocation,
                       PathParts(alternateRelativeLocation) \o rel)

RelativeTo(fs, rel, alternateRelativeLocation) ==
    ResolvedPath(fs, rel, alternateRelativeLocation, InstallDir \o rel)

getAbsoluteFilePath(fs, relativePath, alternateRelativeLocation) ==
    RelativeTo(fs, PathParts(relativePath), alternateRelativeLocation)

(***************************************************************************)
(* Default values, value lookup                                            *)
(***************************************************************************)

\* An excerpt of the default value dictionary
defaultConfigValues ==
    << [k |-> << "M", "a", "s", "s", ".", "c", "g" >>,
        v |-> << "(", "0", " ", "0", " ", "0", ")" >>],
       [k |-> << "A", "e", "r", "o", "F", "o", "r", "c", "e", ".", "C", "d" >>,
        v |-> << "0" >>],
       [k |-> << "N", "o", "s", "e", "c", "o", "n", "e", ".", "s", "h", "a", "p", "e" >>,
        v |-> << "t", "a", "n", "g", "e", "n", "t", "O", "g", "i", "v", "e" >>] >>

SuffixClass == << ".", "c", "l", "a", "s", "s" >>
SuffixStdDev == << "_", "s", "t", "d", "D", "e", "v" >>
SuffixMean == << "_", "m", "e", "a", "n" >>
KeyRandomSeed ==
    << "M", "o", "n", "t", "e", "C", "a", "r", "l", "o", ".",
       "r", "a", "n", "d", "o", "m", "S", "e", "e", "d" >>

\* The return value None / a raised KeyError
NotFound == [found |-> FALSE, value |-> <<>>, classKey |-> <<>>, defaultKey |-> <<>>]

\* The default for the class found, None when the default dictionary lacks it
ClassDefault(defaultDict, classKey, classBasedDefaultKey) ==
    IF DictHas(defaultDict, classBasedDefaultKey)
    THEN [found |-> TRUE,
          value |-> DictGet(defaultDict, classBasedDefaultKey),
          classKey |-> classKey,
          defaultKey |-> classBasedDefaultKey]
    ELSE NotFound

\* _getClassBasedDefaultValue(key), from split level splitLevel down: the
\* value found, with the class key and the default key that gave it
RECURSIVE ClassBasedDefaultFrom(_, _, _, _)
\* The mutant of ClassBasedAt: a class without the default goes on to the
\* shallower levels
ClassBasedAtRetry(dict, defaultDict, key, splitLevel, prefix, suffix) ==
    IF /\ DictHas(dict, prefix \o SuffixClass)
       /\ DictHas(defaultDict, DictGet(dict, prefix \o SuffixClass) \o Dot \o suffix)
    THEN ClassDefault(defaultDict, prefix \o SuffixClass,
                      DictGet(dict, prefix \o SuffixClass) \o Dot \o suffix)
    ELSE ClassBasedDefaultFrom(dict, defaultDict, key, splitLevel - 1)

ClassBasedAt(dict, defaultDict, key, splitLevel, prefix, suffix) ==
    IF DictHas(dict, prefix \o SuffixClass)
    THEN ClassDefault(defaultDict, prefix \o SuffixClass,
                      DictGet(dict, prefix \o SuffixClass) \o Dot \o suffix)
    ELSE ClassBasedDefaultFrom(dict, defaultDict, key, splitLevel - 1)

ClassBasedSplit(dict, defaultDict, key, splitLevel, split) ==
    ClassBasedAt(dict, defaultDict, key, splitLevel, split[1], split[2])

ClassBasedDefaultFrom(dict, defaultDict, key, splitLevel) ==
    IF splitLevel < 0 THEN NotFound
    ELSE ClassBasedSplit(dict, defaultDict, key, splitLevel,
                         splitKeyAtLevel(key, splitLevel))

getClassBasedDefaultValue(dict, defaultDict, key) ==
    ClassBasedDefaultFrom(dict, defaultDict, key, getKeyLevel(key))

\* The last branch of getValue: the class-based default, else KeyError
ClassBasedResult(sd, cls) ==
    IF cls.found
    THEN [found |-> TRUE, value |-> cls.value,
          unaccessedFields |-> sd.unaccessedFields \ {cls.classKey},
          defaultValuesUsed |-> sd.defaultValuesUsed \cup {cls.defaultKey}]
    ELSE [found |-> FALSE, value |-> <<>>,
          unaccessedFields |-> sd.unaccessedFields,
          defaultValuesUsed |-> sd.defaultValuesUsed]

\* The mutant of GetStripped: the default dictionary is asked first
GetDefaultFirst(sd0, key) ==
    IF DictHas(sd0.defaultDict, key)
    THEN [found |-> TRUE, value |-> DictGet(sd0.defaultDict, key),
          unaccessedFields |-> sd0.unaccessedFields,
          defaultValuesUsed |-> sd0.defaultValuesUsed \cup {key}]
    ELSE IF DictHas(sd0.dict, key)
    THEN [found |-> TRUE, value |-> DictGet(sd0.dict, key),
          unaccessedFields |-> sd0.unaccessedFields \ {key},
          defaultValuesUsed |-> sd0.defaultValuesUsed]
    ELSE ClassBasedResult(sd0, getClassBasedDefaultValue(sd0.dict, sd0.defaultDict, key))

GetStripped(sd, key) ==
    IF DictHas(sd.dict, key)
    THEN [found |-> TRUE, value |-> DictGet(sd.dict, key),
          unaccessedFields |-> sd.unaccessedFields \ {key},
          defaultValuesUsed |-> sd.defaultValuesUsed]
    ELSE IF DictHas(sd.defaultDict, key)
    THEN [found |-> TRUE, value |-> DictGet(sd.defaultDict, key),
          unaccessedFields |-> sd.unaccessedFields,
          defaultValuesUsed |-> sd.defaultValuesUsed \cup {key}]
    ELSE ClassBasedResult(sd, getClassBasedDefaultValue(sd.dict, sd.defaultDict, key))

\* getValue(key) on a definition sd = [dict, defaultDict, unaccessedFields,
\* defaultValuesUsed, ...]: [found, value, and the two usage trackers after
\* the call]; found = FALSE is the raised KeyError
getValue(sd, key) == GetStripped(sd, Strip(key))

(***************************************************************************)
(* Numbers, vectors and the random generator                               *)
(***************************************************************************)

Digits == << "0", "1", "2", "3", "4", "5", "6", "7", "8", "9" >>

IsDigit(c) == \E n \in 1..10 : Digits[n] = c

DigitVal(c) == (CHOOSE n \in 1..10 : Digits[n] = c) - 1

RECURSIVE NatVal(_, _)
NatVal(s, acc) == IF s = <<>> THEN acc ELSE NatVal(Tail(s), 10 * acc + DigitVal(Head(s)))

RECURSIVE NatStr(_)
NatStr(n) == IF n < 10 THEN << Digits[n + 1] >> ELSE NatStr(n \div 10) \o << Digits[(n % 10) + 1] >>

ParseWhole(whole) ==
    IF whole # <<>> /\ \A n \in 1..Len(whole) : IsDigit(whole[n])
    THEN [ok |-> TRUE, val |-> NatVal(whole, 0)]
    ELSE [ok |-> FALSE, val |-> 0]

ParseUnsigned(body) ==
    ParseWhole(IF EndsWith(body, << ".", "0" >>) THEN Take(body, Len(body) - 2) ELSE body)

Negated(r) == [ok |-> r.ok, val |-> 0 - r.val]

ParseSigned(s) ==
    IF s # <<>> /\ Head(s) = "-" THEN Negated(ParseUnsigned(Tail(s))) ELSE ParseUnsigned(s)

\* float(string) for the numbers of the model, the integers written with an
\* optional sign and an optional ".0": [ok, val]; ok = FALSE is ValueError
ParseFloat(string) == ParseSigned(Strip(string))

\* str(float) of a whole number
FloatStr(n) == (IF n < 0 THEN << "-" >> \o NatStr(0 - n) ELSE NatStr(n)) \o << ".", "0" >>

Unparenthesized(s) ==
    IF Len(s) >= 2 /\ Head(s) = "(" /\ s[Len(s)] = ")" THEN SubSeq(s, 2, Len(s) - 1) ELSE s

VectorOf(a, b, c) ==
    IF a.ok /\ b.ok /\ c.ok THEN [ok |-> TRUE, val |-> << a.val, b.val, c.val >>]
    ELSE [ok |-> FALSE, val |-> << 0, 0, 0 >>]

VectorOfComponents(comps) ==
    IF Len(comps) = 3
    THEN VectorOf(ParseFloat(comps[1]), ParseFloat(comps[2]), ParseFloat(comps[3]))
    ELSE [ok |-> FALSE, val |-> << 0, 0, 0 >>]

\* Vector(string): three numbers between parentheses: [ok, val]
ParseVector(string) == VectorOfComponents(SplitWs(Unparenthesized(Strip(string))))

\* str(Vector)
VectorStr(v) ==
    << "(" >> \o Join([n \in 1..3 |-> FloatStr(v[n])], << " " >>) \o << ")" >>

\* The number a seed string stands for in the generator
RECURSIVE StrSum(_)
StrSum(s) == IF s = <<>> THEN 0 ELSE CharOrd(Head(s)) + 2 * StrSum(Tail(s))

\* random.Random(seed): the generator state is the seed and the number of
\* draws made
NewRandom(seed) == [seed |-> seed, n |-> 0]

NoRandom == [seed |-> -1, n |-> 0]

\* rng.gauss(mu, sigma): the draw is a function of the seed, the number of
\* earlier draws, mu and sigma
GaussNoise(rng) == (((rng.seed + 1) * (rng.n + 1) + (rng.n \div 2)) % 3) - 1

Gauss(rng, mu, sigma) == mu + sigma * GaussNoise(rng)

Advance(rng, draws) == [rng EXCEPT !.n = @ + draws]

(***************************************************************************)
(* Probabilistic values                                                    *)
(***************************************************************************)

\* The sample of one key whose mean and standard deviation strings are known:
\* a scalar, else a vector, else the ValueError
SampleParsed(key, Dict, rng, mu, sigma, muVec, sigmaVec) ==
    IF mu.ok /\ sigma.ok
    THEN [Dict |-> DictSet(Dict, key, FloatStr(Gauss(rng, mu.val, sigma.val))),
          rng |-> Advance(rng, 1), ok |-> TRUE]
    ELSE IF muVec.ok /\ sigmaVec.ok
    THEN [Dict |-> DictSet(Dict, key, VectorStr([n \in 1..3 |->
                      Gauss(Advance(rng, n - 1), muVec.val[n], sigmaVec.val[n])])),
          rng |-> Advance(rng, 3), ok |-> TRUE]
    ELSE [Dict |-> Dict, rng |-> rng, ok |-> FALSE]

SampleFrom(key, Dict, rng, meanString, stdDevString) ==
    SampleParsed(key, Dict, rng, ParseFloat(meanString), ParseFloat(stdDevString),
                 ParseVector(meanString), ParseVector(stdDevString))

\* The mutant of SampleKey: the mean is the value the key holds, and it is
\* stored under the mean key at every call
SampleKeyDrift(key, Dict, rng) ==
    IF ~DictHas(Dict, key \o SuffixStdDev) THEN [Dict |-> Dict, rng |-> rng, ok |-> TRUE]
    ELSE SampleFrom(key, DictSet(Dict, key \o SuffixMean, DictGet(Dict, key)), rng,
                    DictGet(Dict, key), DictGet(Dict, key \o SuffixStdDev))

\* One pass of the for loop, for key: [Dict, rng, ok]
SampleKey(key, Dict, rng) ==
    IF ~DictHas(Dict, key \o SuffixStdDev) THEN [Dict |-> Dict, rng |-> rng, ok |-> TRUE]
    ELSE IF DictHas(Dict, key \o SuffixMean)
    THEN SampleFrom(key, Dict, rng, DictGet(Dict, key \o SuffixMean),
                    DictGet(Dict, key \o SuffixStdDev))
    ELSE SampleFrom(key, DictSet(Dict, key \o SuffixMean, DictGet(Dict, key)), rng,
                    DictGet(Dict, key), DictGet(Dict, key \o SuffixStdDev))

\* The loop of resampleProbabilisticValues over the keys listed when it
\* starts: [Dict, rng, ok]; ok = FALSE is the re-raised ValueError
RECURSIVE ResampleKeys(_, _, _)
ResampleRest(keys, r) == IF r.ok THEN ResampleKeys(keys, r.Dict, r.rng) ELSE r

ResampleKeys(keys, Dict, rng) ==
    IF keys = <<>> THEN [Dict |-> Dict, rng |-> rng, ok |-> TRUE]
    ELSE ResampleRest(Tail(keys), SampleKey(Head(keys), Dict, rng))

\* resampleProbabilisticValues() of definition sd: [Dict, rng, ok]
resampleProbabilisticValues(sd) ==
    IF sd.disableDistributionSampling
    THEN [Dict |-> sd.dict, rng |-> sd.rng, ok |-> TRUE]
    ELSE ResampleKeys(DictKeys(sd.dict), sd.dict, sd.rng)

(***************************************************************************)
(* SimDefinition.__init__                                                  *)
(***************************************************************************)

\* The fields a SimDefinition holds before its dictionary is assigned
NewSimDefinition(fileName, disableDistributionSampling, defaultDict) ==
    [fileName |-> fileName,
     disableDistributionSampling |-> disableDistributionSampling,
     defaultDict |-> defaultDict,
     dict |-> EmptyDict,
     unaccessedFields |-> {},
     defaultValuesUsed |-> {},
     rng |-> NoRandom]

\* random.Random(randomSeed) for the value of MonteCarlo.randomSeed
SeedOfString(string) == StrSum(string)

\* The definition with the sampled dictionary: [sd, ok]
WithSample(sd, res) ==
    [sd |-> [sd EXCEPT !.dict = res.Dict, !.rng = res.rng], ok |-> res.ok]

Sampled(sd) == WithSample(sd, resampleProbabilisticValues(sd))

\* The mutant of Seeded: the generator is seeded with random.randrange
\* whatever getValue returned
SeededAnew(sd, got, freshSeed) ==
    [sd EXCEPT !.unaccessedFields = got.unaccessedFields,
               !.defaultValuesUsed = got.defaultValuesUsed,
               !.rng = NewRandom(freshSeed)]

\* self.rng = random.Random(randomSeed), for what getValue returned
Seeded(sd, got, freshSeed) ==
    [sd EXCEPT !.unaccessedFields = got.unaccessedFields,
               !.defaultValuesUsed = got.defaultValuesUsed,
               !.rng = NewRandom(IF got.found THEN SeedOfString(got.value) ELSE freshSeed)]

\* _resetUsageTrackers()
resetUsageTrackers(sd) ==
    [sd EXCEPT !.unaccessedFields = KeySet(sd.dict), !.defaultValuesUsed = {}]

InitRandom(sd, freshSeed) ==
    IF sd.disableDistributionSampling THEN [sd |-> sd, ok |-> TRUE]
    ELSE Sampled(Seeded(sd, getValue(sd, KeyRandomSeed), freshSeed))

\* __init__ from the assignment of self.dict on: the usage trackers are
\* reset, the generator is seeded (with freshSeed when MonteCarlo.randomSeed
\* is not found) and the probabilistic values are sampled: [sd, ok]
FinishInit(sd, Dict, freshSeed) ==
    InitRandom(resetUsageTrackers([sd EXCEPT !.dict = Dict]), freshSeed)

(***************************************************************************)
(* writeToFile                                                             *)
(***************************************************************************)

\* The least string of a non-empty set
MinStr(S) == CHOOSE a \in S : \A b \in S \ {a} : StrLess(a, b)

\* sorted(self.dict.items()): the keys in increasing order
RECURSIVE SortedKeys(_)
SortedKeys(S) ==
    IF S = {} THEN <<>> ELSE << MinStr(S) >> \o SortedKeys(S \ {MinStr(S)})

Tab == << "\t" >>
Newline == << "\n" >>

RECURSIVE Tabs(_)
Tabs(n) == IF n <= 0 THEN <<>> ELSE Tab \o Tabs(n - 1)

ClosedOneMore(dictDepth, rest) ==
    [text |-> Tabs(dictDepth - 1) \o << "}" >> \o Newline \o rest.text,
     dictDepth |-> rest.dictDepth]

\* "Close any uneeded dictionaries": [text, dictDepth] of the first while loop
RECURSIVE CloseUnneeded(_, _, _)
CloseUnneeded(currDicts, dicts, dictDepth) ==
    IF dictDepth <= 0 THEN [text |-> <<>>, dictDepth |-> dictDepth]
    ELSE IF dictDepth > Len(dicts) \/ currDicts[dictDepth] # dicts[dictDepth]
    THEN ClosedOneMore(dictDepth, CloseUnneeded(currDicts, dicts, dictDepth - 1))
    ELSE [text |-> <<>>, dictDepth |-> dictDepth]

\* "Open any new dictionaries": the text of the second while loop
RECURSIVE OpenNew(_, _)
OpenNew(dicts, dictDepth) ==
    IF dictDepth >= Len(dicts) THEN <<>>
    ELSE Newline \o Tabs(dictDepth) \o dicts[dictDepth + 1] \o << "{" >> \o Newline
         \o OpenNew(dicts, dictDepth + 1)

\* re.sub("^([^\.]*\.)+", "", key): the text after the last dot
RealKey(key) == Split(key, ".")[Len(Split(key, "."))]

\* The lines that leave currDicts and enter dicts
MoveText(closedText, opened) ==
    closedText \o opened \o (IF opened = <<>> THEN Newline ELSE <<>>)

MoveFrom(dicts, closed) == MoveText(closed.text, OpenNew(dicts, closed.dictDepth))

MoveTo(currDicts, dicts) ==
    IF dicts # currDicts
    THEN MoveFrom(dicts, CloseUnneeded(currDicts, dicts, Len(currDicts)))
    ELSE <<>>

\* key.split('.')[:-1]
DictsOf(key) == Take(Split(key, "."), Len(Split(key, ".")) - 1)

\* One pass of the for loop of writeToFile, for key: the text written
WriteKeyText(dict, currDicts, key) ==
    MoveTo(currDicts, DictsOf(key))
    \o Tabs(Len(DictsOf(key))) \o RealKey(key) \o Tab \o DictGet(dict, key) \o Newline

\* "Close any open dictionaries", after the loop
RECURSIVE CloseAll(_)
CloseAll(dictDepth) ==
    IF dictDepth <= 0 THEN <<>>
    ELSE Tabs(dictDepth - 1) \o << "}" >> \o Newline \o CloseAll(dictDepth - 1)

HeaderText(fileName) ==
    << "#", " ", "M", "A", "P", "L", "E", "A", "F" >> \o Newline
    \o << "#", " ", "F", "i", "l", "e", ":", " " >> \o fileName \o Newline
    \o << "#", " ", "A", "u", "t", "o", "w", "r", "i", "t", "t", "e", "n" >> \o Newline

(***************************************************************************)
(* _replaceRelativeFilePathsWithAbsolutePaths                              *)
(***************************************************************************)

expectedExtensions ==
    { << ".", "c", "s", "v" >>, << ".", "p", "d", "f" >>,
      << ".", "m", "a", "p", "l", "e", "a", "f" >>, << ".", "t", "x", "t" >>,
      << ".", "p", "y" >>, << ".", "e", "n", "g" >> }

isFileName(value) == \E ext \in expectedExtensions : Contains(ext, value)

RepositoryPrefix == << "M", "A", "P", "L", "E", "A", "F", "/" >>

pathIsRelativeToRepository(possiblePath) ==
    Len(possiblePath) > 8 /\ Take(possiblePath, 8) = RepositoryPrefix

\* The value for a path that is not beside the file being parsed
RepositoryPathValue(fs, value, val) ==
    IF pathIsRelativeToRepository(val) THEN getAbsoluteFilePath(fs, val, <<>>) ELSE value

PathValueAt(fs, value, val, possibleLocation) ==
    IF isFileName(val) /\ PathExists(fs, possibleLocation)
    THEN PathStr(possibleLocation)
    ELSE RepositoryPathValue(fs, value, val)

PathValueIn(fs, fileDirectory, value, val) ==
    PathValueAt(fs, value, val, fileDirectory \o PathParts(val))

\* The value a key holds after the pass over the parsed dictionary
ReplacedPathValue(fs, fileName, value) ==
    PathValueIn(fs, PathParent(Walk(fs, <<>>, PathParts(fileName))), value,
                IF Take(value, 2) = << ".", "/" >> THEN Drop(value, 2) ELSE value)

replaceRelativeFilePathsWithAbsolutePaths(fs, fileName, Dict) ==
    [n \in 1..Len(Dict) |->
        [k |-> Dict[n].k, v |-> ReplacedPathValue(fs, fileName, Dict[n].v)]]

(***************************************************************************)
(* _parseDerivedDictionary                                                 *)
(***************************************************************************)

Qualified(currDictName, name) ==
    IF currDictName = <<>> THEN name ELSE currDictName \o Dot \o name

\* "Rename all the keys in the parentDict": the temporary dictionary
RECURSIVE RenameKeys(_, _, _, _, _)
RenameKeys(keysInParentDict, sourceDict, dictPath, derivedDictName, derivedDict) ==
    IF keysInParentDict = <<>> THEN derivedDict
    ELSE RenameKeys(Tail(keysInParentDict), sourceDict, dictPath, derivedDictName,
                    DictSet(derivedDict,
                            Replace(Head(keysInParentDict), dictPath, derivedDictName),
                            DictGet(sourceDict, Head(keysInParentDict))))

\* !replace: every key and every value, into a new dictionary
RECURSIVE ReplaceAll(_, _, _, _)
ReplaceAll(derivedDict, toReplace, replaceWith, derivedDictAfterReplace) ==
    IF derivedDict = <<>> THEN derivedDictAfterReplace
    ELSE ReplaceAll(Tail(derivedDict), toReplace, replaceWith,
                    DictSet(derivedDictAfterReplace,
                            Replace(Head(derivedDict).k, toReplace, replaceWith),
                            Replace(Head(derivedDict).v, toReplace, replaceWith)))

\* !removeKeysContaining
RECURSIVE RemoveKeysContaining(_, _)
RemoveKeysContaining(derivedDict, stringToDelete) ==
    IF derivedDict = <<>> THEN <<>>
    ELSE (IF Contains(stringToDelete, Head(derivedDict).k) THEN <<>>
          ELSE << Head(derivedDict) >>)
         \o RemoveKeysContaining(Tail(derivedDict), stringToDelete)

\* "Apply additional commands", from line i (0-based): [i, derivedDict, err]
RECURSIVE ApplyCommands(_, _, _)
ApplyCommand(workingText, i, derivedDict, line, command) ==
    IF command[1] = KwReplace
    THEN (IF Len(command) < 2
          THEN [i |-> i, derivedDict |-> derivedDict, err |-> "IndexError"]
          ELSE ApplyCommands(workingText, i + 1,
                   ReplaceAll(derivedDict, removeQuotes(command[2]),
                              removeQuotes(command[Len(command)]), <<>>)))
    ELSE IF command[1] = KwRemoveKeysContaining
    THEN (IF Len(command) < 2
          THEN [i |-> i, derivedDict |-> derivedDict, err |-> "IndexError"]
          ELSE ApplyCommands(workingText, i + 1,
                   RemoveKeysContaining(derivedDict, command[2])))
    ELSE IF line[1] # "!"
    THEN [i |-> i, derivedDict |-> derivedDict, err |-> "none"]
    ELSE [i |-> i, derivedDict |-> derivedDict, err |-> "UnknownDirectiveError"]

ApplyCommands(workingText, i, derivedDict) ==
    IF i >= Len(workingText) THEN [i |-> i, derivedDict |-> derivedDict, err |-> "none"]
    ELSE ApplyCommand(workingText, i, derivedDict, workingText[i + 1],
                      ShlexSplit(workingText[i + 1]))

\* The mutant of AddDerived: the values of the temporary dictionary replace
\* the values the dictionary holds
RECURSIVE AddDerivedOver(_, _)
AddDerivedOver(Dict, derivedDict) ==
    IF derivedDict = <<>> THEN [Dict |-> Dict, err |-> "none"]
    ELSE AddDerivedOver(DictSet(Dict, Head(derivedDict).k, Head(derivedDict).v),
                        Tail(derivedDict))

\* "Add derivedDict values to Dict": [Dict, err]; the keys merged before a
\* collision stay merged
RECURSIVE AddDerived(_, _)
AddDerived(Dict, derivedDict) ==
    IF derivedDict = <<>> THEN [Dict |-> Dict, err |-> "none"]
    ELSE IF DictHas(Dict, Head(derivedDict).k)
    THEN [Dict |-> Dict, err |-> "DerivedKeyCollisionError"]
    ELSE AddDerived(DictSet(Dict, Head(derivedDict).k, Head(derivedDict).v),
                    Tail(derivedDict))

\* The source path named by the last word of a !create line
HeaderOf(currDictName, definitionLine, last) ==
    IF Len(definitionLine) < 2 \/ last = <<>>
    THEN [err |-> "IndexError", derivedDictName |-> <<>>, dictPath |-> <<>>]
    ELSE [err |-> "none",
          derivedDictName |-> Qualified(currDictName, definitionLine[2]),
          dictPath |-> IF last[Len(last)] = "{" THEN Take(last, Len(last) - 1)
                       ELSE last]

HeaderWords(currDictName, definitionLine) ==
    HeaderOf(currDictName, definitionLine, definitionLine[Len(definitionLine)])

\* The header of a !create line: [err, derivedDictName, dictPath]
DerivedHeader(line, currDictName) == HeaderWords(currDictName, ShlexSplit(line))

\* The dictionary after the merge of the temporary dictionary
Merged(staged, cmds, added) ==
    [Dict |-> added.Dict, i |-> cmds.i, err |-> added.err, staged |-> staged,
     derivedDict |-> cmds.derivedDict]

AfterCommands(Dict, staged, cmds) ==
    IF cmds.err # "none"
    THEN [Dict |-> Dict, i |-> cmds.i, err |-> cmds.err, staged |-> staged,
          derivedDict |-> <<>>]
    ELSE Merged(staged, cmds, AddDerived(Dict, cmds.derivedDict))

AfterRename(Dict, workingText, initializationLine, staged) ==
    AfterCommands(Dict, staged, ApplyCommands(workingText, initializationLine + 1, staged))

\* _parseDerivedDictionary from the check of the source keys to the call of
\* _parseDictionaryContents: [Dict, i, err, staged, derivedDict]
Derive(Dict, workingText, initializationLine, derivedDictName, dictPath, sourceDict, keysInParentDict) ==
    IF Len(keysInParentDict) = 0
    THEN [Dict |-> Dict, i |-> initializationLine, err |-> "UnknownSourceDictError",
          staged |-> <<>>, derivedDict |-> <<>>]
    ELSE AfterRename(Dict, workingText, initializationLine,
             RenameKeys(keysInParentDict, sourceDict, dictPath, derivedDictName, <<>>))

(***************************************************************************)
(* State                                                                   *)
(***************************************************************************)

VARIABLES
    files,              \* the file system: file (component sequence) -> raw lines
    simDefParseStack,   \* the set shared by the SimDefinitions of one load
    ctxs,               \* the constructions from file in progress, innermost last
    sd,                 \* the SimDefinition under construction or in use
    sd2,                \* a second SimDefinition
    status,             \* "init", "parsing", "ready", "writing", "written" or the error raised
    ev,                 \* what the last step did
    wr,                 \* the position of writeToFile
    ret,                \* what the last call returned
    nops                \* the numbers of calls made on sd and on sd2

vars == << files, simDefParseStack, ctxs, sd, sd2, status, ev, wr, ret, nops >>

\* Bounds of the model
MaxLoadDepth == 4
MaxDirectives == 1
NumFreshSeeds == 2
MaxOps == 2

\* random.randrange(1000000), cut to the seeds of the model
FreshSeeds == 0..(NumFreshSeeds - 1)

\* What a step did: for a !create line the dictionary before it (pre), the
\* source path and dictionary, the destination, the keys as renamed (staged)
\* and as merged (derivedDict), and the line and its index
Ev(op) ==
    [op |-> op, pre |-> <<>>, src |-> <<>>, dst |-> <<>>, sourceDict |-> <<>>,
     fromFile |-> FALSE, staged |-> <<>>, derivedDict |-> <<>>, line |-> <<>>, at |-> 0]

NoWait == [kind |-> "none", dictPath |-> <<>>, derivedDictName |-> <<>>]

NoWriter ==
    [phase |-> "none", fileName |-> <<>>, table |-> <<>>, sortedDict |-> <<>>, n |-> 0,
     currDicts |-> <<>>, out |-> <<>>]

NoReturn == [op |-> "none", key |-> <<>>, found |-> FALSE, value |-> <<>>, list |-> <<>>]

\* One call of _parseDictionaryContents: its dictionary name and overwrite
\* flag; for the call made by _parseDerivedDictionary also the source path
\* and the dictionary as it was when the !create line was reached
Frame(currDictName, allowKeyOverwriting, derived, src, pre) ==
    [currDictName |-> currDictName, allowKeyOverwriting |-> allowKeyOverwriting,
     derived |-> derived, src |-> src, dst |-> currDictName, pre |-> pre,
     fromFile |-> FALSE]

\* _parseSimDefinitionFile(fileName) up to the first call of
\* _parseDictionaryContents
NewCtx(fileName) ==
    [fileName |-> fileName,
     Dict |-> EmptyDict,
     workingText |-> Preprocess(files[Walk(files, <<>>, PathParts(fileName))]),
     i |-> 0,
     frames |-> << Frame(<<>>, FALSE, FALSE, <<>>, <<>>) >>,
     wait |-> NoWait,
     pc |-> "parse"]

FileExists(fileName) == Walk(files, <<>>, PathParts(fileName)) \in DOMAIN files

Cur == ctxs[Len(ctxs)]

SetCur(c) == [ctxs EXCEPT ![Len(ctxs)] = c]

Fr == Cur.frames[Len(Cur.frames)]

Parsing == status = "parsing" /\ ctxs # <<>> /\ Cur.pc = "parse"

AtLine == Parsing /\ Cur.i < Len(Cur.workingText)

RawLine == Cur.workingText[Cur.i + 1]

Line == Strip(RawLine)

KindOf(line, splitLine) ==
    IF splitLine[1] = KwCreate THEN "create"
    ELSE IF splitLine[1] = KwInclude THEN "include"
    ELSE IF line[Len(line)] = "{" THEN "open"
    ELSE IF line = << "}" >> THEN "close"
    ELSE IF Len(splitLine) > 1 THEN "keyValue"
    ELSE "bad"

KindOfLine(line) == KindOf(line, SplitWs(line))

\* The branch of the if chain of _parseDictionaryContents the line takes
LineKind == KindOfLine(Line)

ParserUnchanged == UNCHANGED << files, sd2, wr, ret, nops >>

(***************************************************************************)
(* _loadSubSimDefinition                                                   *)
(***************************************************************************)

\* The construction of the SimDefinition of filePath starts
LoadFile(filePath, wait) ==
    IF filePath \in simDefParseStack
    THEN /\ status' = "CircularIncludeError"
         /\ UNCHANGED << simDefParseStack, ctxs >>
    ELSE /\ simDefParseStack' = simDefParseStack \cup {filePath}
         /\ IF Len(ctxs) >= MaxLoadDepth
            THEN status' = "RecursionError" /\ ctxs' = ctxs
            ELSE IF ~FileExists(filePath)
            THEN status' = "FileNotFoundError" /\ ctxs' = ctxs
            ELSE /\ status' = status
                 /\ ctxs' = Append(SetCur([Cur EXCEPT !.wait = wait]), NewCtx(filePath))

\* The call _loadSubSimDefinition(path) up to the start of the parse of the
\* file; wait is what the caller does with the SimDefinition returned
LoadSub(path, wait) ==
    LoadFile(getAbsoluteFilePath(files, path, PathStr(PathParent(PathParts(Cur.fileName)))),
             wait)

(***************************************************************************)
(* _parseDictionaryContents, one line a step                               *)
(***************************************************************************)

\* The mutant of DeriveResult: the lines of the block are parsed into the
\* source dictionary
DeriveResultInSource(c, derivedDictName, dictPath, sourceDict, r) ==
    [ctx |-> IF r.err = "none"
             THEN [c EXCEPT !.Dict = r.Dict, !.i = r.i, !.wait = NoWait,
                            !.frames = Append(@, [Frame(dictPath, TRUE, TRUE,
                                                        dictPath, c.Dict)
                                                  EXCEPT !.dst = derivedDictName,
                                                         !.fromFile = c.wait.kind = "create"])]
             ELSE [c EXCEPT !.Dict = r.Dict, !.wait = NoWait],
     status |-> IF r.err = "none" THEN "parsing" ELSE r.err,
     ev |-> [op |-> "create", pre |-> c.Dict, src |-> dictPath, dst |-> derivedDictName,
             sourceDict |-> sourceDict, fromFile |-> c.wait.kind = "create",
             staged |-> r.staged, derivedDict |-> r.derivedDict,
             line |-> c.workingText[c.i + 1], at |-> c.i]]

\* The construction c after the derive r: [ctx, status, ev]
DeriveResult(c, derivedDictName, dictPath, sourceDict, r) ==
    [ctx |-> IF r.err = "none"
             THEN [c EXCEPT !.Dict = r.Dict, !.i = r.i, !.wait = NoWait,
                            !.frames = Append(@, [Frame(derivedDictName, TRUE, TRUE,
                                                        dictPath, c.Dict)
                                                  EXCEPT !.dst = derivedDictName,
                                                         !.fromFile = c.wait.kind = "create"])]
             ELSE [c EXCEPT !.Dict = r.Dict, !.wait = NoWait],
     status |-> IF r.err = "none" THEN "parsing" ELSE r.err,
     ev |-> [op |-> "create", pre |-> c.Dict, src |-> dictPath, dst |-> derivedDictName,
             sourceDict |-> sourceDict, fromFile |-> c.wait.kind = "create",
             staged |-> r.staged, derivedDict |-> r.derivedDict,
             line |-> c.workingText[c.i + 1], at |-> c.i]]

\* The rest of _parseDerivedDictionary in construction c once the source
\* keys are known: [ctx, status, ev]
DeriveStep(c, derivedDictName, dictPath, sourceDict, keysInParentDict) ==
    DeriveResult(c, derivedDictName, dictPath, sourceDict,
                 Derive(c.Dict, c.workingText, c.i, derivedDictName, dictPath,
                        sourceDict, keysInParentDict))

\* The constructions in progress, the innermost being replaced
Derived(outer, step) ==
    /\ ctxs' = Append(outer, step.ctx)
    /\ status' = step.status
    /\ ev' = step.ev

CreateFrom(hdr) ==
    IF hdr.err # "none"
    THEN /\ status' = hdr.err
         /\ ev' = Ev("create")
         /\ UNCHANGED << simDefParseStack, ctxs >>
    ELSE IF Contains(<< ":" >>, hdr.dictPath)
    THEN /\ LoadSub(Split(hdr.dictPath, ":")[1],
                    [kind |-> "create", dictPath |-> Split(hdr.dictPath, ":")[2],
                     derivedDictName |-> hdr.derivedDictName])
         /\ ev' = Ev("load")
    ELSE /\ Derived(Take(ctxs, Len(ctxs) - 1),
                    DeriveStep(Cur, hdr.derivedDictName, hdr.dictPath, Cur.Dict,
                               getSubKeys(hdr.dictPath, Cur.Dict)))
         /\ UNCHANGED simDefParseStack

ParseCreate ==
    /\ AtLine /\ LineKind = "create"
    /\ CreateFrom(DerivedHeader(RawLine, Fr.currDictName))
    /\ UNCHANGED sd
    /\ ParserUnchanged

\* line.index(" "): the place of the first space, 0 when there is none
FirstSpace(line) ==
    IF \E n \in 1..Len(line) : line[n] = " "
    THEN CHOOSE n \in 1..Len(line) : line[n] = " " /\ \A m \in 1..(n - 1) : line[m] # " "
    ELSE 0

IncludeFrom(line, space) ==
    IF space = 0
    THEN status' = "ValueError" /\ UNCHANGED << simDefParseStack, ctxs >>
    ELSE LoadSub(Strip(Drop(line, space - 1)),
                 [kind |-> "include", dictPath |-> <<>>, derivedDictName |-> <<>>])

IncludeLine(line) == IncludeFrom(line, FirstSpace(line))

ParseInclude ==
    /\ AtLine /\ LineKind = "include"
    /\ IncludeLine(Line)
    /\ ev' = Ev("load")
    /\ UNCHANGED sd
    /\ ParserUnchanged

\* The mutant of OpenSubDict: a sub-dictionary is parsed without leave to
\* overwrite
OpenSubDictChecked(c, fr, subDictName) ==
    [c EXCEPT !.i = @ + 1,
              !.frames = Append(@, Frame(Qualified(fr.currDictName, subDictName),
                                         FALSE, FALSE, <<>>, <<>>))]

OpenSubDict(c, fr, subDictName) ==
    [c EXCEPT !.i = @ + 1,
              !.frames = Append(@, Frame(Qualified(fr.currDictName, subDictName),
                                         fr.allowKeyOverwriting, FALSE, <<>>, <<>>))]

SubDictLine(line) == ctxs' = SetCur(OpenSubDict(Cur, Fr, Take(line, Len(line) - 1)))

ParseSubDict ==
    /\ AtLine /\ LineKind = "open"
    /\ SubDictLine(Line)
    /\ ev' = Ev("open")
    /\ UNCHANGED << simDefParseStack, sd, status >>
    /\ ParserUnchanged

CloseDict(c, fr) ==
    /\ IF Len(c.frames) = 1
       THEN ctxs' = SetCur([c EXCEPT !.pc = "parsed"])
       ELSE ctxs' = SetCur([c EXCEPT !.i = @ + 1, !.frames = Take(@, Len(@) - 1)])
    /\ ev' = IF fr.derived
             THEN [Ev("closeDerived") EXCEPT !.pre = fr.pre, !.src = fr.src,
                                             !.dst = fr.dst,
                                             !.fromFile = fr.fromFile]
             ELSE Ev("close")

\* "}": the call returns the line's index; the caller goes on after it, and
\* the parse of the file is over when the call is the root one
ParseDictEnd ==
    /\ AtLine /\ LineKind = "close"
    /\ CloseDict(Cur, Fr)
    /\ UNCHANGED << simDefParseStack, sd, status >>
    /\ ParserUnchanged

StoreKey(c, fr, keyString, value) ==
    IF ~DictHas(c.Dict, keyString) \/ fr.allowKeyOverwriting
    THEN /\ ctxs' = SetCur([c EXCEPT !.Dict = DictSet(@, keyString, value), !.i = @ + 1])
         /\ status' = status
    ELSE /\ status' = "DuplicateKeyError"
         /\ ctxs' = ctxs

KeyValueLine(c, fr, splitLine) ==
    /\ StoreKey(c, fr, Qualified(fr.currDictName, splitLine[1]),
                Join(Tail(splitLine), << " " >>))
    /\ ev' = [Ev("keyValue") EXCEPT !.pre = c.Dict]

ParseKeyValue ==
    /\ AtLine /\ LineKind = "keyValue"
    /\ KeyValueLine(Cur, Fr, SplitWs(Line))
    /\ UNCHANGED << simDefParseStack, sd >>
    /\ ParserUnchanged

ParseBadLine ==
    /\ AtLine /\ LineKind = "bad"
    /\ status' = "MalformedLineError"
    /\ ev' = Ev("bad")
    /\ UNCHANGED << simDefParseStack, ctxs, sd >>
    /\ ParserUnchanged

\* The while loop ends at the end of the text: the root call is over; a nested
\* call returns None, and its caller fails on i += 1
ParseEndOfText ==
    /\ Parsing /\ Cur.i >= Len(Cur.workingText)
    /\ IF Len(Cur.frames) = 1
       THEN ctxs' = SetCur([Cur EXCEPT !.pc = "parsed"]) /\ status' = status
       ELSE ctxs' = ctxs /\ status' = "TypeError"
    /\ ev' = Ev("endOfText")
    /\ UNCHANGED << simDefParseStack, sd >>
    /\ ParserUnchanged

\* "Add keys to current sim definition, inside current dictionary"
RECURSIVE IncludeKeys(_, _, _)
IncludeKeys(Dict, currDictName, subDict) ==
    IF subDict = <<>> THEN Dict
    ELSE IncludeKeys(DictSet(Dict, Qualified(currDictName, Head(subDict).k), Head(subDict).v),
                     currDictName, Tail(subDict))

Parsed == status = "parsing" /\ ctxs # <<>> /\ Cur.pc = "parsed"

\* _parseSimDefinitionFile returns the dictionary; the rest of __init__ runs
InitParsed(c, sd0, freshSeed) ==
    FinishInit(sd0, replaceRelativeFilePathsWithAbsolutePaths(files, c.fileName, c.Dict),
               freshSeed)

\* The SimDefinition of a loaded file, as _loadSubSimDefinition makes it
SubSimDef(c, freshSeed) ==
    InitParsed(c, NewSimDefinition(c.fileName, FALSE, defaultConfigValues), freshSeed)

TopConstructed(top) ==
    /\ sd' = top.sd
    /\ status' = IF top.ok THEN "ready" ELSE "InvalidProbabilisticValueError"

\* The parse of the outermost file is over: the SimDefinition is complete
Constructed ==
    /\ Parsed /\ Len(ctxs) = 1
    /\ \E freshSeed \in FreshSeeds : TopConstructed(InitParsed(Cur, sd, freshSeed))
    /\ ctxs' = <<>>
    /\ ev' = Ev("constructed")
    /\ UNCHANGED simDefParseStack
    /\ ParserUnchanged

Included(parent, pfr, subDict) ==
    /\ ctxs' = Append(Take(ctxs, Len(ctxs) - 2),
                      [parent EXCEPT !.Dict = IncludeKeys(@, pfr.currDictName, subDict),
                                     !.i = @ + 1, !.wait = NoWait])
    /\ status' = status
    /\ ev' = [Ev("include") EXCEPT !.pre = parent.Dict, !.derivedDict = subDict]

SubFailed ==
    /\ status' = "InvalidProbabilisticValueError"
    /\ ev' = Ev("constructed")
    /\ UNCHANGED << simDefParseStack, ctxs >>

\* The mutant of IncludeSub: the path stays in the parse stack
IncludeSubKept(c, parent, sub) ==
    IF ~sub.ok THEN SubFailed
    ELSE /\ simDefParseStack' = simDefParseStack
         /\ Included(parent, parent.frames[Len(parent.frames)], sub.sd.dict)

IncludeSub(c, parent, sub) ==
    IF ~sub.ok THEN SubFailed
    ELSE /\ simDefParseStack' = simDefParseStack \ {c.fileName}
         /\ Included(parent, parent.frames[Len(parent.frames)], sub.sd.dict)

\* The parse of an included file is over: _loadSubSimDefinition returns its
\* SimDefinition and the !include branch adds its keys
ReturnInclude ==
    /\ Parsed /\ Len(ctxs) > 1 /\ ctxs[Len(ctxs) - 1].wait.kind = "include"
    /\ \E freshSeed \in FreshSeeds :
           IncludeSub(Cur, ctxs[Len(ctxs) - 1], SubSimDef(Cur, freshSeed))
    /\ UNCHANGED sd
    /\ ParserUnchanged

CreateFromSub(c, parent, sub) ==
    IF ~sub.ok THEN SubFailed
    ELSE /\ simDefParseStack' = simDefParseStack \ {c.fileName}
         /\ Derived(Take(ctxs, Len(ctxs) - 2),
                    DeriveStep(parent, parent.wait.derivedDictName, parent.wait.dictPath,
                               sub.sd.dict, getSubKeys(parent.wait.dictPath, sub.sd.dict)))

\* The parse of the file a !create line names is over: _loadSubSimDefinition
\* returns its SimDefinition and _parseDerivedDictionary goes on
ReturnCreate ==
    /\ Parsed /\ Len(ctxs) > 1 /\ ctxs[Len(ctxs) - 1].wait.kind = "create"
    /\ \E freshSeed \in FreshSeeds :
           CreateFromSub(Cur, ctxs[Len(ctxs) - 1], SubSimDef(Cur, freshSeed))
    /\ UNCHANGED sd
    /\ ParserUnchanged

\* SimDefinition(fileName): the file is opened and read
Construct ==
    /\ status = "init"
    /\ simDefParseStack' = {sd.fileName}
    /\ IF FileExists(sd.fileName)
       THEN status' = "parsing" /\ ctxs' = << NewCtx(sd.fileName) >>
       ELSE status' = "FileNotFoundError" /\ ctxs' = ctxs
    /\ ev' = Ev("construct")
    /\ UNCHANGED sd
    /\ ParserUnchanged

ParseNext ==
    \/ Construct
    \/ ParseCreate
    \/ ParseInclude
    \/ ParseSubDict
    \/ ParseDictEnd
    \/ ParseKeyValue
    \/ ParseBadLine
    \/ ParseEndOfText
    \/ Constructed
    \/ ReturnInclude
    \/ ReturnCreate

(***************************************************************************)
(* The keys, values and file names the calls are made with                 *)
(***************************************************************************)

KeyPlain == << "k" >>
KeyPadded == << " ", "k", " " >>
KeyFinCg == << "R", "o", "c", "k", "e", "t", ".", "F", "i", "n", "1", ".", "c", "g" >>
KeyFinShape == << "R", "o", "c", "k", "e", "t", ".", "F", "i", "n", "1", ".", "s", "h", "a", "p", "e" >>
KeyFinMass == << "R", "o", "c", "k", "e", "t", ".", "F", "i", "n", "1", ".", "m", "a", "s", "s" >>
KeyFinTipShape == << "R", "o", "c", "k", "e", "t", ".", "F", "i", "n", "1", ".", "t", "i", "p", ".", "s", "h", "a", "p", "e" >>
KeyRocketName == << "R", "o", "c", "k", "e", "t", ".", "n", "a", "m", "e" >>
KeyUnknown == << "z", "z" >>
KeyX == << "X" >>
KeyY == << "Y" >>

QueryKeys ==
    { KeyPlain, KeyPadded, KeyFinCg, KeyFinShape, KeyFinMass, KeyFinTipShape,
      KeyRocketName, KeyUnknown }

SetKeys == { KeyX, KeyPadded }

SetValues == { << "a", "b", "c" >>, << "7" >> }

RemoveKeys == { KeyX, KeyPadded }

WriteNames == { << "W" >> }

\* The keys and the strings the introspection calls are made with
ParentKeys ==
    { <<>>,
      << "R", "o", "c", "k", "e", "t" >>,
      << "R", "o", "c", "k", "e", "t", ".", "S", "t", "a", "g", "e", "O", "n", "e" >>,
      << "S", "i", "m" >> }

ChildKeys ==
    { << "R", "o", "c", "k", "e", "t", ".", "n", "a", "m", "e" >>,
      << "R", "o", "c", "k", "e", "t" >>,
      << "R", "o", "c", "k", "e", "t", "A", ".", "n", "a", "m", "e" >>,
      << "R", "o", "c", "k", "e", "t", "." >>,
      <<>>,
      << "R", "o", "c", "k", "e", "t", ".", "S", "t", "a", "g", "e", "O", "n", "e", ".", "m", "a", "s", "s" >> }

\* The arguments of findKeysContaining: lists of strings, and one string
FindArguments ==
    { [isList |-> TRUE, val |-> << << "c", "l", "a", "s", "s" >> >>],
      [isList |-> TRUE, val |-> << << "S", "t", "a", "g", "e" >>, << "m", "a", "s", "s" >> >>],
      [isList |-> TRUE, val |-> << << "z", "z" >>, << "n", "a", "m", "e" >> >>],
      [isList |-> TRUE, val |-> << >>],
      [isList |-> FALSE, val |-> << "n", "a", "m", "e" >>] }

(***************************************************************************)
(* SimDefinition(dictionary=...) and the calls made on a SimDefinition     *)
(***************************************************************************)

Returned(op, key, found, value) ==
    [op |-> op, key |-> key, found |-> found, value |-> value, list |-> <<>>]

Ready == status = "ready" /\ nops[1] < MaxOps

CallUnchanged == UNCHANGED << files, simDefParseStack, ctxs, ev, wr >>

Built(r) ==
    /\ sd' = r.sd
    /\ status' = IF r.ok THEN "ready" ELSE "InvalidProbabilisticValueError"
    /\ ret' = Returned("construct", <<>>, r.ok, <<>>)

\* SimDefinition(dictionary=sd.dict): __init__ with a parsed dictionary
ConstructFromDictionary ==
    /\ status = "dict"
    /\ \E freshSeed \in FreshSeeds : Built(FinishInit(sd, sd.dict, freshSeed))
    /\ UNCHANGED << sd2, nops >>
    /\ CallUnchanged

Got(key, got) ==
    /\ sd' = [sd EXCEPT !.unaccessedFields = got.unaccessedFields,
                        !.defaultValuesUsed = got.defaultValuesUsed]
    /\ ret' = Returned("getValue", key, got.found, got.value)

\* getValue(key); found = FALSE is the KeyError raised to the caller
GetValue ==
    /\ Ready
    /\ \E key \in QueryKeys : Got(key, getValue(sd, key))
    /\ nops' = [nops EXCEPT ![1] = @ + 1]
    /\ UNCHANGED << sd2, status >>
    /\ CallUnchanged

\* setValue(key, value) on definition d
setValue(d, key, value) == [d EXCEPT !.dict = DictSet(@, Strip(key), value)]

SetValue ==
    /\ Ready
    /\ \E key \in SetKeys, value \in SetValues :
           /\ sd' = setValue(sd, key, value)
           /\ ret' = Returned("setValue", key, TRUE, value)
    /\ nops' = [nops EXCEPT ![1] = @ + 1]
    /\ UNCHANGED << sd2, status >>
    /\ CallUnchanged

\* removeKey(key): the value popped, or None
RemoveKey ==
    /\ Ready
    /\ \E key \in RemoveKeys :
           IF DictHas(sd.dict, key)
           THEN /\ sd' = [sd EXCEPT !.dict = DictDel(@, key)]
                /\ ret' = Returned("removeKey", key, TRUE, DictGet(sd.dict, key))
           ELSE /\ sd' = sd
                /\ ret' = Returned("removeKey", key, FALSE, <<>>)
    /\ nops' = [nops EXCEPT ![1] = @ + 1]
    /\ UNCHANGED << sd2, status >>
    /\ CallUnchanged

\* setIfAbsent(key, value)
SetIfAbsent ==
    /\ Ready
    /\ \E key \in SetKeys, value \in SetValues :
           /\ sd' = IF ~DictHas(sd.dict, key) THEN setValue(sd, key, value) ELSE sd
           /\ ret' = Returned("setIfAbsent", key, ~DictHas(sd.dict, key), value)
    /\ nops' = [nops EXCEPT ![1] = @ + 1]
    /\ UNCHANGED << sd2, status >>
    /\ CallUnchanged

Resampled(d, res) == [d EXCEPT !.dict = res.Dict, !.rng = res.rng]

ResampleReturns(res) ==
    /\ sd' = Resampled(sd, res)
    /\ ret' = Returned("resample", <<>>, res.ok, <<>>)

\* resampleProbabilisticValues(); found = FALSE is the ValueError re-raised
Resample ==
    /\ Ready
    /\ ResampleReturns(resampleProbabilisticValues(sd))
    /\ nops' = [nops EXCEPT ![1] = @ + 1]
    /\ UNCHANGED << sd2, status >>
    /\ CallUnchanged

(***************************************************************************)
(* Two SimDefinitions of one table                                         *)
(***************************************************************************)

BuiltTwins(r1, r2) ==
    /\ sd' = r1.sd
    /\ sd2' = r2.sd
    /\ status' = IF r1.ok /\ r2.ok THEN "ready" ELSE "InvalidProbabilisticValueError"
    /\ ret' = Returned("construct", <<>>, r1.ok /\ r2.ok, <<>>)

\* SimDefinition(dictionary=...) twice, each with its own random.randrange
ConstructTwins ==
    /\ status = "dict"
    /\ \E freshSeed \in FreshSeeds, freshSeed2 \in FreshSeeds :
           BuiltTwins(FinishInit(sd, sd.dict, freshSeed), FinishInit(sd2, sd2.dict, freshSeed2))
    /\ UNCHANGED nops
    /\ CallUnchanged

SecondResampleReturns(res) ==
    /\ sd2' = Resampled(sd2, res)
    /\ ret' = Returned("resample2", <<>>, res.ok, <<>>)

\* resampleProbabilisticValues() of the second SimDefinition
ResampleSecond ==
    /\ status = "ready" /\ nops[2] < MaxOps
    /\ SecondResampleReturns(resampleProbabilisticValues(sd2))
    /\ nops' = [nops EXCEPT ![2] = @ + 1]
    /\ UNCHANGED << sd, status >>
    /\ CallUnchanged

(***************************************************************************)
(* Introspection                                                           *)
(***************************************************************************)

\* The mutant of SubDictsOf: a sub key one level below counts too
RECURSIVE SubDictsOfAnyDepth(_, _, _)
SubDictsOfAnyDepth(subKeys, keyLevel, subDictionaries) ==
    IF subKeys = <<>> THEN subDictionaries
    ELSE SubDictsOfAnyDepth(Tail(subKeys), keyLevel,
             IF getKeyLevel(Head(subKeys)) - keyLevel > 0
             THEN subDictionaries \cup { getParentKeyAtLevel(Head(subKeys), keyLevel + 1) }
             ELSE subDictionaries)

\* The for loop of getImmediateSubDicts: the set after the sub keys
RECURSIVE SubDictsOf(_, _, _)
SubDictsOf(subKeys, keyLevel, subDictionaries) ==
    IF subKeys = <<>> THEN subDictionaries
    ELSE SubDictsOf(Tail(subKeys), keyLevel,
             IF getKeyLevel(Head(subKeys)) - keyLevel > 1
             THEN subDictionaries \cup { getParentKeyAtLevel(Head(subKeys), keyLevel + 1) }
             ELSE subDictionaries)

\* getImmediateSubDicts(key) before list(): the set subDictionaries
getImmediateSubDicts(dict, key) == SubDictsOf(getSubKeys(key, dict), getKeyLevel(key), {})

\* list(set): the elements of S, once each, in any order
Orderings(S) ==
    { q \in [1..Cardinality(S) -> S] : \A e \in S : \E n \in 1..Cardinality(S) : q[n] = e }

ListReturned(op, key, found, value, list) ==
    ret' = [Returned(op, key, found, value) EXCEPT !.list = list]

GetImmediateSubDicts ==
    /\ Ready
    /\ \E key \in ParentKeys :
           \E list \in Orderings(getImmediateSubDicts(sd.dict, key)) :
               ListReturned("getImmediateSubDicts", key, TRUE, <<>>, list)
    /\ nops' = [nops EXCEPT ![1] = @ + 1]
    /\ UNCHANGED << sd, sd2, status >>
    /\ CallUnchanged

\* isSubKey(potentialParent, potentialChild), called on two strings
IsSubKey ==
    /\ Ready
    /\ \E potentialParent \in ParentKeys \cup ChildKeys, potentialChild \in ChildKeys :
           ret' = Returned("isSubKey", potentialParent,
                           isSubKey(potentialParent, potentialChild), potentialChild)
    /\ nops' = [nops EXCEPT ![1] = @ + 1]
    /\ UNCHANGED << sd, sd2, status >>
    /\ CallUnchanged

\* The inner for loop of findKeysContaining: match stays True
MatchesAll(key, keyContains) ==
    \A n \in 1..Len(keyContains) : Contains(keyContains[n], key)

\* The outer for loop: matchingKeys
RECURSIVE MatchingKeys(_, _)
MatchingKeys(dict, keyContains) ==
    IF dict = <<>> THEN <<>>
    ELSE (IF MatchesAll(Head(dict).k, keyContains) THEN << Head(dict).k >> ELSE <<>>)
         \o MatchingKeys(Tail(dict), keyContains)

\* An argument that is no list is made a list of one
AsList(keyContains) == IF keyContains.isList THEN keyContains.val ELSE << keyContains.val >>

\* findKeysContaining(keyContains): matchingKeys; the empty list is returned as None
findKeysContaining(dict, keyContains) == MatchingKeys(dict, AsList(keyContains))

FoundKeys(keyContains, matchingKeys) ==
    ListReturned("findKeysContaining", <<>>, Len(matchingKeys) > 0, keyContains, matchingKeys)

FindKeysContaining ==
    /\ Ready
    /\ \E keyContains \in FindArguments :
           FoundKeys(AsList(keyContains), findKeysContaining(sd.dict, keyContains))
    /\ nops' = [nops EXCEPT ![1] = @ + 1]
    /\ UNCHANGED << sd, sd2, status >>
    /\ CallUnchanged

(***************************************************************************)
(* writeToFile, one key a step, and the parse of the file written          *)
(***************************************************************************)

WriterUnchanged == UNCHANGED << simDefParseStack, ctxs, sd2, ev, ret, nops >>

\* open(fileName, 'w') and the header
WriteBegin ==
    /\ status = "ready" /\ wr.phase = "none"
    /\ \E fileName \in WriteNames :
           /\ sd' = [sd EXCEPT !.fileName = fileName]
           /\ files' = (PathParts(fileName) :> <<>>) @@ files
           /\ wr' = [phase |-> "open", fileName |-> fileName, table |-> sd.dict,
                     sortedDict |-> SortedKeys(KeySet(sd.dict)), n |-> 0,
                     currDicts |-> <<>>, out |-> HeaderText(fileName)]
    /\ status' = "writing"
    /\ WriterUnchanged

WriteOne(key) ==
    wr' = [wr EXCEPT !.n = @ + 1,
                     !.currDicts = DictsOf(key),
                     !.out = @ \o WriteKeyText(sd.dict, wr.currDicts, key)]

\* One pass of the for loop over the sorted keys
WriteKey ==
    /\ status = "writing" /\ wr.n < Len(wr.sortedDict)
    /\ WriteOne(wr.sortedDict[wr.n + 1])
    /\ UNCHANGED << files, sd, status >>
    /\ WriterUnchanged

Written(out) ==
    /\ wr' = [wr EXCEPT !.phase = "closed", !.out = out]
    /\ files' = [files EXCEPT ![PathParts(wr.fileName)] = Split(out, "\n")]

\* The open dictionaries are closed, and the file
WriteEnd ==
    /\ status = "writing" /\ wr.n >= Len(wr.sortedDict)
    /\ Written(wr.out \o CloseAll(Len(wr.currDicts)))
    /\ status' = "ready"
    /\ UNCHANGED sd
    /\ WriterUnchanged

\* SimDefinition(fileName) of the file written: a new SimDefinition
ConstructWritten ==
    /\ status = "ready" /\ wr.phase = "closed"
    /\ \E disableDistributionSampling \in BOOLEAN :
           sd' = NewSimDefinition(wr.fileName, disableDistributionSampling,
                                  defaultConfigValues)
    /\ wr' = [wr EXCEPT !.phase = "reloaded"]
    /\ status' = "init"
    /\ UNCHANGED files
    /\ WriterUnchanged

(***************************************************************************)
(* The files the model parses                                              *)
(***************************************************************************)

W(tokens) == Join(tokens, << " " >>)

Indented(line) == Tab \o line

KwFrom == << "f", "r", "o", "m" >>

LOpen(name) == name \o << "{" >>
LClose == << "}" >>
LKv(key, value) == key \o << " " >> \o value
LCreate(name, src) == W(<< KwCreate, name, KwFrom, src \o << "{" >> >>)
LCreateSpaced(name, src) == W(<< KwCreate, name, KwFrom, src, << "{" >> >>)
LReplace(a, b) == W(<< KwReplace, a, b >>)
LRemove(a) == W(<< KwRemoveKeysContaining, a >>)
LInclude(path) == KwInclude \o << " " >> \o path
LUnknown == << "!", "s", "c", "a", "l", "e", " ", "2" >>

Quoted(a) == << "\"" >> \o a \o << "\"" >>

\* The dictionaries defined before the !create line
PreTexts ==
    { \* A.A.x, A.Ab
      << LOpen(<< "A" >>), Indented(LOpen(<< "A" >>)), Indented(LKv(<< "x" >>, << "1" >>)),
         Indented(LClose), Indented(LKv(<< "A", "b" >>, << "2" >>)), LClose >>,
      \* A.m, A.c and a dictionary D.m that exists already
      << LOpen(<< "A" >>), LKv(<< "m" >>, << "1" >>), LKv(<< "c" >>, << "2" >>), LClose,
         LOpen(<< "D" >>), LKv(<< "m" >>, << "5" >>), LClose >>,
      \* A.T.a, A.m
      << LOpen(<< "A" >>), LOpen(<< "T" >>), LKv(<< "a" >>, << "1" >>), LClose,
         LKv(<< "m" >>, << "1" >>), LClose >> }

\* The !create line
CreateLines ==
    { LCreate(<< "D" >>, << "A" >>),
      LCreateSpaced(<< "D" >>, << "A" >>),
      LCreate(<< "T" >>, << "A" >>),
      LCreate(<< "D" >>, << "Z" >>),
      LCreate(<< "A" >>, << "A", ".", "T" >>) }

\* The lines that may follow it
DirectiveLines ==
    { LReplace(Quoted(<< "m" >>), Quoted(<< "c" >>)),
      LReplace(<< "D" >>, << "A", ".", "n" >>),
      Indented(LRemove(<< "m" >>)),
      LUnknown,
      Indented(LUnknown) }

RECURSIVE SeqsUpTo(_, _)
SeqsUpTo(S, n) ==
    IF n = 0 THEN { <<>> }
    ELSE LET shorter == SeqsUpTo(S, n - 1)
         IN  shorter \cup { Append(q, e) : q \in shorter, e \in S }

BodyTexts ==
    { <<>>,
      << LKv(<< "m" >>, << "7" >>) >>,
      << LOpen(<< "T" >>), LKv(<< "a" >>, << "3" >>), LClose >> }

PostTexts ==
    { <<>>,
      << LOpen(<< "D" >>), LKv(<< "m" >>, << "9" >>), LClose >> }

FileM == << << "M" >> >>

\* One file M: dictionaries, then a !create block, at the root or inside a
\* reopened dictionary A, then more lines
DeriveScenarios ==
    { [files |-> FileM :> (pre \o (IF inA THEN << LOpen(<< "A" >>) >> ELSE <<>>)
                           \o << create >> \o dirs \o body \o << LClose >>
                           \o (IF inA THEN << LClose >> ELSE <<>>) \o post),
       top |-> << "M" >>,
       disable |-> FALSE] :
      pre \in PreTexts, inA \in BOOLEAN, create \in CreateLines,
      dirs \in SeqsUpTo(DirectiveLines, MaxDirectives),
      body \in BodyTexts, post \in PostTexts }

FileP == << << "P" >> >>
FileQ == << << "Q" >> >>
FileR == << << "R" >> >>
FileXA == << << "x" >>, << "A" >> >>
FileYB == << << "y" >>, << "B" >> >>
FileInstC == InstallDir \o << << "C" >> >>

NameP == << "P" >>
NameQ == << "Q" >>
NameR == << "R" >>
NameXA == << "x", "/", "A" >>
UpYB == << ".", ".", "/", "y", "/", "B" >>
UpXA == << ".", ".", "/", "x", "/", "A" >>

KeyK == << "k" >>
KeyKStdDev == KeyK \o SuffixStdDev

SeedLines ==
    << LOpen(<< "M", "o", "n", "t", "e", "C", "a", "r", "l", "o" >>),
       LKv(<< "r", "a", "n", "d", "o", "m", "S", "e", "e", "d" >>, << "1" >>), LClose >>

Scenario(fs, top) == [files |-> fs, top |-> top, disable |-> FALSE]

\* Files that load other files: include cycles of one, two and three files
\* and one across two directories, a file included twice, an included key
\* that exists already, a source dictionary in another file, a file of the
\* installation directory, a missing file, and files with probabilistic values
IncludeScenarios ==
    { Scenario(FileP :> << LInclude(NameP) >>, NameP),
      Scenario((FileP :> << LKv(KeyK, << "1" >>), LInclude(NameQ) >>)
               @@ (FileQ :> << LInclude(NameP) >>), NameP),
      Scenario((FileP :> << LInclude(NameQ) >>) @@ (FileQ :> << LInclude(NameR) >>)
               @@ (FileR :> << LInclude(NameP) >>), NameP),
      Scenario((FileXA :> << LInclude(UpYB) >>) @@ (FileYB :> << LInclude(UpXA) >>),
               NameXA),
      Scenario((FileXA :> << LCreate(<< "D" >>, UpYB \o << ":", "A" >>), LClose >>)
               @@ (FileYB :> << LInclude(UpXA) >>), NameXA),
      Scenario((FileP :> << LInclude(NameQ), LOpen(<< "A" >>), Indented(LInclude(NameQ)),
                            LClose >>)
               @@ (FileQ :> << LKv(KeyK, << "1" >>) >>), NameP),
      Scenario((FileP :> << LKv(KeyK, << "1" >>), LInclude(NameQ) >>)
               @@ (FileQ :> << LKv(KeyK, << "2" >>) >>), NameP),
      Scenario((FileP :> << LCreate(<< "D" >>, NameQ \o << ":", "A" >>),
                            LKv(<< "m" >>, << "7" >>), LClose >>)
               @@ (FileQ :> << LOpen(<< "A" >>), LKv(<< "m" >>, << "1" >>),
                               LKv(<< "c" >>, << "2" >>), LClose >>), NameP),
      Scenario((FileP :> << LInclude(<< "C" >>) >>)
               @@ (FileInstC :> << LKv(KeyK, << "3" >>) >>), NameP),
      Scenario(FileP :> << LInclude(<< "Z" >>) >>, NameP),
      Scenario(FileP :> << KwInclude >>, NameP),
      Scenario((FileP :> << LInclude(NameQ) >>)
               @@ (FileQ :> << LKv(KeyK, << "x" >>), LKv(KeyKStdDev, << "1" >>) >>), NameP),
      Scenario((FileP :> << LInclude(NameQ) >>)
               @@ (FileQ :> << LKv(KeyK, << "1" >>), LKv(KeyKStdDev, << "1" >>) >>), NameP),
      Scenario(FileP :> << LKv(KeyK, << "1" >>), LKv(KeyKStdDev, << "2" >>) >>, NameP),
      Scenario(FileP :> (SeedLines \o << LKv(KeyK, << "1" >>), LKv(KeyKStdDev, << "2" >>) >>),
               NameP),
      [files |-> FileP :> << LKv(KeyK, << "1" >>), LKv(KeyKStdDev, << "2" >>) >>,
       top |-> NameP, disable |-> TRUE],
      [files |-> (FileP :> << LInclude(NameQ) >>)
                 @@ (FileQ :> << LKv(KeyK, << "1" >>), LKv(KeyKStdDev, << "1" >>) >>),
       top |-> NameP, disable |-> TRUE],
      Scenario(FileP :> << LOpen(<< "A" >>), LKv(KeyK, << "1" >>) >>, NameP),
      Scenario(FileP :> << LKv(KeyK, << "1" >>), << "k" >> >>, NameP),
      Scenario(FileP :> << LKv(KeyK, << "1" >>), LKv(KeyK, << "2" >>) >>, NameP),
      Scenario(FileP :> << LKv(KeyK, << "1" >>), LClose, LKv(KeyK, << "2" >>) >>, NameP),
      Scenario(FileP :> << >>, NameQ) }

Scenarios == DeriveScenarios \cup IncludeScenarios

(***************************************************************************)
(* The dictionaries the model constructs SimDefinitions from               *)
(***************************************************************************)

\* A defaultDict given to the constructor
UseDefaults ==
    << [k |-> << "F", "i", "n", "S", "e", "t", ".", "s", "h", "a", "p", "e" >>,
        v |-> << "t", "a", "p", "e", "r", "e", "d" >>],
       [k |-> << "F", "i", "n", "S", "e", "t", ".", "c", "g" >>,
        v |-> << "8" >>],
       [k |-> << "F", "i", "n", "S", "e", "t", ".", "t", "i", "p", ".", "s", "h", "a", "p", "e" >>,
        v |-> << "r", "o", "u", "n", "d" >>],
       [k |-> << "R", ".", "F", "i", "n", "1", ".", "m", "a", "s", "s" >>,
        v |-> << "5" >>],
       [k |-> << "R", "o", "c", "k", "e", "t", ".", "F", "i", "n", "1", ".", "c", "g" >>,
        v |-> << "9" >>],
       [k |-> << "k" >>,
        v |-> << "0" >>] >>

\* Instance dictionaries: classes at one and at two levels, a key the
\* defaults hold too, and probabilistic scalars and vectors, with and
\* without a mean and a seed
UseTables ==
    { << [k |-> << "k" >>,
          v |-> << "1" >>],
         [k |-> << "R", "o", "c", "k", "e", "t", ".", "c", "l", "a", "s", "s" >>,
          v |-> << "R" >>],
         [k |-> << "R", "o", "c", "k", "e", "t", ".", "F", "i", "n", "1", ".", "c", "l", "a", "s", "s" >>,
          v |-> << "F", "i", "n", "S", "e", "t" >>] >>,
      << [k |-> << "R", "o", "c", "k", "e", "t", ".", "F", "i", "n", "1", ".", "c", "l", "a", "s", "s" >>,
          v |-> << "F", "i", "n", "S", "e", "t" >>] >>,
      << [k |-> << "R", "o", "c", "k", "e", "t", ".", "c", "l", "a", "s", "s" >>,
          v |-> << "R" >>] >>,
      << [k |-> << "X" >>,
          v |-> << "5" >>],
         [k |-> << "X", "_", "s", "t", "d", "D", "e", "v" >>,
          v |-> << "1" >>] >>,
      << [k |-> << "X" >>,
          v |-> << "5" >>],
         [k |-> << "X", "_", "s", "t", "d", "D", "e", "v" >>,
          v |-> << "1" >>],
         [k |-> << "X", "_", "m", "e", "a", "n" >>,
          v |-> << "4" >>] >>,
      << [k |-> << "M", "o", "n", "t", "e", "C", "a", "r", "l", "o", ".", "r", "a", "n", "d", "o", "m", "S", "e", "e", "d" >>,
          v |-> << "1" >>],
         [k |-> << "X" >>,
          v |-> << "5" >>],
         [k |-> << "X", "_", "s", "t", "d", "D", "e", "v" >>,
          v |-> << "2" >>],
         [k |-> << "V" >>,
          v |-> << "(", "1", " ", "2", " ", "3", ")" >>],
         [k |-> << "V", "_", "s", "t", "d", "D", "e", "v" >>,
          v |-> << "(", "1", " ", "1", " ", "1", ")" >>] >>,
      << [k |-> << "X" >>,
          v |-> << "a", "b", "c" >>],
         [k |-> << "X", "_", "s", "t", "d", "D", "e", "v" >>,
          v |-> << "1" >>],
         [k |-> << "Y" >>,
          v |-> << "1" >>],
         [k |-> << "Y", "_", "s", "t", "d", "D", "e", "v" >>,
          v |-> << "1" >>] >>,
      << [k |-> << "X" >>,
          v |-> << "5" >>],
         [k |-> << "X", "_", "s", "t", "d", "D", "e", "v" >>,
          v |-> << "1" >>],
         [k |-> << "X", "_", "m", "e", "a", "n" >>,
          v |-> << "5" >>],
         [k |-> << "X", "_", "m", "e", "a", "n", "_", "s", "t", "d", "D", "e", "v" >>,
          v |-> << "1" >>] >> }

UseScenarios ==
    { [dict |-> t, defaultDict |-> UseDefaults, disable |-> d] :
      t \in UseTables, d \in BOOLEAN }

\* The dictionaries written to file
WriteTables ==
    { << [k |-> << "k" >>,
          v |-> << "1" >>] >>,
      << [k |-> << "A", ".", "k" >>,
          v |-> << "1" >>],
         [k |-> << "A", ".", "j" >>,
          v |-> << "2" >>],
         [k |-> << "B", ".", "k" >>,
          v |-> << "3" >>] >>,
      << [k |-> << "A", ".", "X", ".", "k" >>,
          v |-> << "1" >>],
         [k |-> << "B", ".", "X", ".", "k" >>,
          v |-> << "2" >>] >>,
      << [k |-> << "A", ".", "X", ".", "k" >>,
          v |-> << "1" >>],
         [k |-> << "B", ".", "X", ".", "j" >>,
          v |-> << "2" >>] >>,
      << [k |-> << "A", ".", "X", ".", "k" >>,
          v |-> << "1" >>],
         [k |-> << "A", ".", "Y", ".", "k" >>,
          v |-> << "2" >>],
         [k |-> << "b" >>,
          v |-> << "3" >>] >>,
      << [k |-> << "B", ".", "k" >>,
          v |-> << "1" >>],
         [k |-> << "A", ".", "k" >>,
          v |-> << "2" >>] >>,
      << [k |-> << "A", ".", "X", ".", "Y", ".", "k" >>,
          v |-> << "1" >>],
         [k |-> << "A", ".", "k" >>,
          v |-> << "2" >>],
         [k |-> << "c" >>,
          v |-> << "3", " ", "4" >>] >>,
      << [k |-> << "k" >>,
          v |-> << "1" >>],
         [k |-> << "k", "_", "s", "t", "d", "D", "e", "v" >>,
          v |-> << "2" >>] >> }

WriteScenarios ==
    { [dict |-> t, defaultDict |-> defaultConfigValues, disable |-> d] :
      t \in WriteTables, d \in BOOLEAN }

\* The dictionaries two SimDefinitions are made of
TwinTables ==
    { << [k |-> << "M", "o", "n", "t", "e", "C", "a", "r", "l", "o", ".", "r", "a", "n", "d", "o", "m", "S", "e", "e", "d" >>,
          v |-> << "1" >>],
         [k |-> << "X" >>,
          v |-> << "5" >>],
         [k |-> << "X", "_", "s", "t", "d", "D", "e", "v" >>,
          v |-> << "2" >>] >>,
      << [k |-> << "M", "o", "n", "t", "e", "C", "a", "r", "l", "o", ".", "r", "a", "n", "d", "o", "m", "S", "e", "e", "d" >>,
          v |-> << "2" >>],
         [k |-> << "X" >>,
          v |-> << "5" >>],
         [k |-> << "X", "_", "s", "t", "d", "D", "e", "v" >>,
          v |-> << "2" >>],
         [k |-> << "V" >>,
          v |-> << "(", "1", " ", "2", " ", "3", ")" >>],
         [k |-> << "V", "_", "s", "t", "d", "D", "e", "v" >>,
          v |-> << "(", "1", " ", "1", " ", "1", ")" >>] >>,
      << [k |-> << "X" >>,
          v |-> << "5" >>],
         [k |-> << "X", "_", "s", "t", "d", "D", "e", "v" >>,
          v |-> << "2" >>] >>,
      << [k |-> << "M", "o", "n", "t", "e", "C", "a", "r", "l", "o", ".", "r", "a", "n", "d", "o", "m", "S", "e", "e", "d" >>,
          v |-> << "3" >>],
         [k |-> << "X" >>,
          v |-> << "5" >>],
         [k |-> << "X", "_", "s", "t", "d", "D", "e", "v" >>,
          v |-> << "1" >>],
         [k |-> << "X", "_", "m", "e", "a", "n" >>,
          v |-> << "4" >>],
         [k |-> << "Y" >>,
          v |-> << "1" >>],
         [k |-> << "Y", "_", "s", "t", "d", "D", "e", "v" >>,
          v |-> << "3" >>] >>,
      << [k |-> << "Y" >>,
          v |-> << "1" >>],
         [k |-> << "Y", "_", "s", "t", "d", "D", "e", "v" >>,
          v |-> << "3" >>],
         [k |-> << "M", "o", "n", "t", "e", "C", "a", "r", "l", "o", ".", "r", "a", "n", "d", "o", "m", "S", "e", "e", "d" >>,
          v |-> << "4" >>],
         [k |-> << "X" >>,
          v |-> << "0" >>],
         [k |-> << "X", "_", "s", "t", "d", "D", "e", "v" >>,
          v |-> << "1" >>] >>,
      << [k |-> << "M", "o", "n", "t", "e", "C", "a", "r", "l", "o", ".", "r", "a", "n", "d", "o", "m", "S", "e", "e", "d" >>,
          v |-> << "5" >>],
         [k |-> << "X" >>,
          v |-> << "a", "b", "c" >>],
         [k |-> << "X", "_", "s", "t", "d", "D", "e", "v" >>,
          v |-> << "1" >>] >>,
      << [k |-> << "M", "o", "n", "t", "e", "C", "a", "r", "l", "o", ".", "r", "a", "n", "d", "o", "m", "S", "e", "e", "d" >>,
          v |-> << "6" >>],
         [k |-> << "k" >>,
          v |-> << "1" >>] >> }

TwinScenarios ==
    { [dict |-> t, defaultDict |-> defaultConfigValues, disable |-> d] :
      t \in TwinTables, d \in BOOLEAN }

\* Instance dictionaries for the introspection calls: two stages and a name
\* under Rocket, a dictionary without sub-dictionaries, a root-level key
QueryTables ==
    { << [k |-> << "R", "o", "c", "k", "e", "t", ".", "S", "t", "a", "g", "e", "O", "n", "e", ".", "m", "a", "s", "s" >>,
          v |-> << "1" >>],
         [k |-> << "R", "o", "c", "k", "e", "t", ".", "S", "t", "a", "g", "e", "O", "n", "e", ".", "F", "i", "n", ".", "c", "l", "a", "s", "s" >>,
          v |-> << "F" >>],
         [k |-> << "R", "o", "c", "k", "e", "t", ".", "S", "t", "a", "g", "e", "T", "w", "o", ".", "m", "a", "s", "s" >>,
          v |-> << "3" >>],
         [k |-> << "R", "o", "c", "k", "e", "t", ".", "n", "a", "m", "e" >>,
          v |-> << "n" >>],
         [k |-> << "R", "o", "c", "k", "e", "t", "A", ".", "n", "a", "m", "e" >>,
          v |-> << "x" >>] >>,
      << [k |-> << "R", "o", "c", "k", "e", "t", ".", "n", "a", "m", "e" >>,
          v |-> << "n" >>],
         [k |-> << "S", "i", "m", ".", "c", "l", "a", "s", "s" >>,
          v |-> << "S" >>] >>,
      << [k |-> << "m", "a", "s", "s" >>,
          v |-> << "1" >>] >> }

QueryScenarios ==
    { [dict |-> t, defaultDict |-> defaultConfigValues, disable |-> TRUE] : t \in QueryTables }

Init ==
    \E sc \in Scenarios :
        /\ files = sc.files
        /\ sd = NewSimDefinition(sc.top, sc.disable, defaultConfigValues)
        /\ sd2 = NewSimDefinition(<<>>, FALSE, defaultConfigValues)
        /\ simDefParseStack = {}
        /\ ctxs = <<>>
        /\ status = "init"
        /\ ev = Ev("none")
        /\ wr = NoWriter
        /\ ret = NoReturn
        /\ nops = << 0, 0 >>

Next == ParseNext

\* SimDefinition(fileName): the parse of files
Spec == Init /\ [][Next]_vars

\* The constructor is called with dictionary sc.dict
InitDictionary(sc) ==
    /\ files = << >>
    /\ sd = [NewSimDefinition(<<>>, sc.disable, sc.defaultDict) EXCEPT !.dict = sc.dict]
    /\ sd2 = [NewSimDefinition(<<>>, sc.disable, sc.defaultDict) EXCEPT !.dict = sc.dict]
    /\ simDefParseStack = {}
    /\ ctxs = <<>>
    /\ status = "dict"
    /\ ev = Ev("none")
    /\ wr = NoWriter
    /\ ret = NoReturn
    /\ nops = << 0, 0 >>

InitUse == \E sc \in UseScenarios : InitDictionary(sc)

NextUse ==
    \/ ConstructFromDictionary
    \/ GetValue
    \/ SetValue
    \/ RemoveKey
    \/ SetIfAbsent
    \/ Resample

\* A SimDefinition made of a dictionary, and the calls made on it
SpecUse == InitUse /\ [][NextUse]_vars

InitWrite == \E sc \in WriteScenarios : InitDictionary(sc)

NextWrite ==
    \/ ConstructFromDictionary
    \/ WriteBegin
    \/ WriteKey
    \/ WriteEnd
    \/ ConstructWritten
    \/ Construct
    \/ ParseSubDict
    \/ ParseDictEnd
    \/ ParseKeyValue
    \/ ParseEndOfText
    \/ Constructed

\* A SimDefinition written to a file that is parsed again
SpecWrite == InitWrite /\ [][NextWrite]_vars

InitTwin == \E sc \in TwinScenarios : InitDictionary(sc)

NextTwin ==
    \/ ConstructTwins
    \/ Resample
    \/ ResampleSecond

\* Two SimDefinitions of one dictionary, resampled
SpecTwin == InitTwin /\ [][NextTwin]_vars

InitQuery == \E sc \in QueryScenarios : InitDictionary(sc)

NextQuery ==
    \/ ConstructFromDictionary
    \/ GetImmediateSubDicts
    \/ IsSubKey
    \/ FindKeysContaining

\* A SimDefinition made of a dictionary, and the introspection calls
SpecQuery == InitQuery /\ [][NextQuery]_vars

(***************************************************************************)
(* Properties                                                              *)
(***************************************************************************)

Ended == status \notin {"dict", "init", "parsing", "writing"}

\* The parse of the outermost file has returned its dictionary
TopParsed == Parsed /\ Len(ctxs) = 1

\* C1: the text writeToFile produces for a table parses without error, and
\* the dictionary parsed has the keys and the values of the table written
C1_RoundTrip ==
    wr.phase = "reloaded" =>
        /\ status \in {"init", "parsing", "ready"}
        /\ TopParsed => DictEq(Cur.Dict, wr.table)

\* The paths a line of a file asks to load
PathsOfHeader(hdr) ==
    IF hdr.err = "none" /\ Contains(<< ":" >>, hdr.dictPath)
    THEN { Split(hdr.dictPath, ":")[1] } ELSE {}

PathsOfKind(rawLine, line, kind) ==
    IF kind = "include" /\ FirstSpace(line) # 0
    THEN { Strip(Drop(line, FirstSpace(line) - 1)) }
    ELSE IF kind = "create" THEN PathsOfHeader(DerivedHeader(rawLine, <<>>))
    ELSE {}

PathsOfLine(rawLine) == PathsOfKind(rawLine, Strip(rawLine), KindOfLine(Strip(rawLine)))

PathsOfText(workingText) ==
    UNION { PathsOfLine(workingText[n]) : n \in 1..Len(workingText) }

\* The files file f refers to by !include or !create ... from file:path
FileRefs(fs, f) ==
    { Walk(fs, <<>>, PathParts(getAbsoluteFilePath(fs, path, PathStr(PathParent(f))))) :
      path \in PathsOfText(Preprocess(fs[f])) } \cap DOMAIN fs

\* The files reached from the files of S in at most n more references
RECURSIVE ReachedFrom(_, _, _)
ReachedFrom(fs, S, n) ==
    IF n = 0 THEN S
    ELSE ReachedFrom(fs, S \cup UNION { FileRefs(fs, f) : f \in S }, n - 1)

ReachesItself(fs, f) ==
    f \in DOMAIN fs /\ f \in ReachedFrom(fs, FileRefs(fs, f), Cardinality(DOMAIN fs))

TopFile == Walk(files, <<>>, PathParts(sd.fileName))

\* C2: the construction of a SimDefinition from a file that reaches itself
\* through !include and !create references ends with CircularIncludeError
C2_CycleEndsCircular ==
    (Ended /\ ReachesItself(files, TopFile)) => status = "CircularIncludeError"

\* The key getValue looks up for the key it was called with
Trimmed(key) == Strip(key)

\* The levels of key whose prefix has a .class entry in dictionary dict
ClassLevels(dict, key) ==
    { l \in 0..getKeyLevel(key) : DictHas(dict, getParentKeyAtLevel(key, l) \o SuffixClass) }

DeepestClassLevel(dict, key) ==
    CHOOSE l \in ClassLevels(dict, key) : \A m \in ClassLevels(dict, key) : m <= l

\* The names of key after level l, joined by dots
SuffixAfter(key, l) ==
    Join(SubSeq(Split(key, "."), l + 2, Len(Split(key, "."))), Dot)

\* The default key of the class at the deepest level of key that has one
DeepestClassDefaultKey(dict, key) ==
    DictGet(dict, getParentKeyAtLevel(key, DeepestClassLevel(dict, key)) \o SuffixClass)
    \o Dot \o SuffixAfter(key, DeepestClassLevel(dict, key))

HasClassDefault(d, key) ==
    /\ ClassLevels(d.dict, key) # {}
    /\ DictHas(d.defaultDict, DeepestClassDefaultKey(d.dict, key))

\* C3: getValue returns the instance value of the trimmed key when the
\* instance dictionary has it, else the default dictionary's value when that
\* has it, and only else what the class-based fallback gives; it raises
\* KeyError when that gives nothing
C3_Precedence ==
    ret.op = "getValue" =>
        IF DictHas(sd.dict, Trimmed(ret.key))
        THEN ret.found /\ ret.value = DictGet(sd.dict, Trimmed(ret.key))
        ELSE IF DictHas(sd.defaultDict, Trimmed(ret.key))
        THEN ret.found /\ ret.value = DictGet(sd.defaultDict, Trimmed(ret.key))
        ELSE /\ ret.found <=>
                    getClassBasedDefaultValue(sd.dict, sd.defaultDict, Trimmed(ret.key)).found
             /\ ret.found =>
                    ret.value = getClassBasedDefaultValue(sd.dict, sd.defaultDict,
                                                          Trimmed(ret.key)).value

\* getValue was asked a key the instance and the default dictionary both
\* hold, with different values
C3_Witness ==
    /\ ret.op = "getValue" /\ ret.found
    /\ DictHas(sd.defaultDict, Trimmed(ret.key))
    /\ DictHas(sd.dict, Trimmed(ret.key))
    /\ DictGet(sd.dict, Trimmed(ret.key)) # DictGet(sd.defaultDict, Trimmed(ret.key))

FellBack(key) ==
    /\ ret.op = "getValue"
    /\ key = Trimmed(ret.key)
    /\ ~DictHas(sd.dict, key)
    /\ ~DictHas(sd.defaultDict, key)

\* C4: the class-based fallback ends at the deepest level of the key whose
\* prefix has a .class entry: it gives the default of <class>.<suffix> when
\* the default dictionary has it and nothing otherwise, whatever the
\* shallower levels hold; without any .class entry it gives nothing
C4_DeepestClassDecides ==
    \A key \in { Trimmed(k) : k \in QueryKeys } :
        FellBack(key) =>
            /\ ret.found <=> HasClassDefault(sd, key)
            /\ ret.found =>
                   ret.value = DictGet(sd.defaultDict, DeepestClassDefaultKey(sd.dict, key))

\* The fallback gave nothing at the deepest class level although a shallower
\* level has a class whose default matches
C4_Witness ==
    \E key \in { Trimmed(k) : k \in QueryKeys } :
        /\ FellBack(key)
        /\ ~ret.found
        /\ \E l \in ClassLevels(sd.dict, key) :
               /\ l < DeepestClassLevel(sd.dict, key)
               /\ DictHas(sd.defaultDict,
                          DictGet(sd.dict, getParentKeyAtLevel(key, l) \o SuffixClass)
                          \o Dot \o SuffixAfter(key, l))

\* key is path + "." + rest
UnderPath(path, key) == StartsWith(key, path \o Dot)

RestOf(path, key) == Drop(key, Len(path) + 1)

\* The keys d1 and d2 hold under path, and their values, are the same
SameUnder(path, d1, d2) ==
    /\ \A n \in 1..Len(d1) :
           UnderPath(path, d1[n].k) =>
               DictHas(d2, d1[n].k) /\ DictGet(d2, d1[n].k) = d1[n].v
    /\ \A n \in 1..Len(d2) : UnderPath(path, d2[n].k) => DictHas(d1, d2[n].k)

\* A !create line got as far as renaming the keys of its source
Staged == ev.op = "create" /\ ev.staged # <<>>

\* C5: a !create of D from S stages every source key S.rest as D.rest with
\* its value: only the leading S is replaced
C5_OnlyLeadingPrefixRenamed ==
    (Staged /\ ev.src # <<>>) =>
        \A n \in 1..Len(ev.sourceDict) :
            UnderPath(ev.src, ev.sourceDict[n].k) =>
                /\ DictHas(ev.staged, ev.dst \o Dot \o RestOf(ev.src, ev.sourceDict[n].k))
                /\ DictGet(ev.staged, ev.dst \o Dot \o RestOf(ev.src, ev.sourceDict[n].k))
                       = ev.sourceDict[n].v

\* The !create line has white space between the source path and the brace
SpacedHeader(words) ==
    /\ Len(words) >= 5
    /\ words[Len(words)] = << "{" >>
    /\ ~Contains(<< ":" >>, words[Len(words) - 1])

\* What the !create line does when its source path is path
DeriveFrom(path) ==
    Derive(ev.pre, Cur.workingText, ev.at, ev.dst, path, ev.pre, getSubKeys(path, ev.pre))

SameOutcome(expected) ==
    /\ status = (IF expected.err = "none" THEN "parsing" ELSE expected.err)
    /\ Cur.Dict = expected.Dict

\* C6: a !create line with white space before the brace derives from the
\* source it names, as the line without the white space does
C6_SpacedBraceDerives ==
    (ev.op = "create" /\ ev.line # <<>> /\ SpacedHeader(ShlexSplit(ev.line))) =>
        SameOutcome(DeriveFrom(ShlexSplit(ev.line)[Len(ShlexSplit(ev.line)) - 1]))

\* The closing brace of a !create block whose source is in the file parsed
BlockClosed == ev.op = "closeDerived" /\ ~ev.fromFile /\ ev.src # <<>>

Collision ==
    /\ ev.op = "create"
    /\ \E n \in 1..Len(ev.derivedDict) : DictHas(ev.pre, ev.derivedDict[n].k)

\* C8: a key of the temporary dictionary that the dictionary being built
\* holds already ends the parse with DerivedKeyCollisionError, and no value
\* the dictionary held is replaced
C8_CollisionFails ==
    Collision =>
        /\ status = "DerivedKeyCollisionError"
        /\ \A n \in 1..Len(ev.pre) :
               /\ DictHas(Cur.Dict, ev.pre[n].k)
               /\ DictGet(Cur.Dict, ev.pre[n].k) = ev.pre[n].v

\* The key that collides holds another value in the temporary dictionary
C8_Witness ==
    /\ Collision
    /\ status = "DerivedKeyCollisionError"
    /\ \E n \in 1..Len(ev.derivedDict) :
           /\ DictHas(ev.pre, ev.derivedDict[n].k)
           /\ DictGet(ev.pre, ev.derivedDict[n].k) # ev.derivedDict[n].v

\* A step that runs resampleProbabilisticValues on sd: the constructor, or
\* a call
ResampleStep ==
    \/ status = "dict" /\ status' # "dict"
    \/ nops'[1] = nops[1] + 1 /\ ret'.op = "resample"

\* The mean of key before the step: the value under the mean key, else the
\* value of the key
MeanBefore(key) ==
    IF DictHas(sd.dict, key \o SuffixMean) THEN DictGet(sd.dict, key \o SuffixMean)
    ELSE DictGet(sd.dict, key)

\* After the step the key, its mean and its standard deviation are there,
\* and the mean is the mean of before
MeanHeld(key) ==
    /\ DictHas(sd'.dict, key)
    /\ DictHas(sd'.dict, key \o SuffixStdDev)
    /\ DictHas(sd'.dict, key \o SuffixMean)
    /\ DictGet(sd'.dict, key \o SuffixMean) = MeanBefore(key)

Probabilistic(d, key) == DictHas(d, key) /\ DictHas(d, key \o SuffixStdDev)

\* C9 as stated: every resample leaves, for every key with a standard
\* deviation, the key, its standard deviation and its mean, and the mean is
\* the value declared
C9_MeanKeptAlways ==
    [][ResampleStep =>
          \A n \in 1..Len(sd.dict) :
              Probabilistic(sd.dict, sd.dict[n].k) => MeanHeld(sd.dict[n].k)]_vars

\* C9: for every key with a standard deviation whose mean key has none, a
\* resample never changes a mean that is there; and when sampling is not
\* disabled and the resample returns, the key, its standard deviation and its
\* mean are there, and the mean is the one of before, or the value the key
\* held when there was none
C9_MeanKept ==
    [][ResampleStep =>
          \A n \in 1..Len(sd.dict) :
              (/\ Probabilistic(sd.dict, sd.dict[n].k)
               /\ ~DictHas(sd.dict, sd.dict[n].k \o SuffixMean \o SuffixStdDev)) =>
                  /\ DictHas(sd.dict, sd.dict[n].k \o SuffixMean) =>
                         /\ DictHas(sd'.dict, sd.dict[n].k \o SuffixMean)
                         /\ DictGet(sd'.dict, sd.dict[n].k \o SuffixMean)
                                = DictGet(sd.dict, sd.dict[n].k \o SuffixMean)
                  /\ (~sd.disableDistributionSampling /\ ret'.found) =>
                         MeanHeld(sd.dict[n].k)]_vars

\* A second resample has drawn a value that is not the mean
C9_Witness ==
    /\ ret.op = "resample" /\ ret.found
    /\ nops[1] = MaxOps
    /\ ~sd.disableDistributionSampling
    /\ \E n \in 1..Len(sd.dict) :
           /\ Probabilistic(sd.dict, sd.dict[n].k)
           /\ DictHas(sd.dict, sd.dict[n].k \o SuffixMean)
           /\ DictGet(sd.dict, sd.dict[n].k \o SuffixMean) # sd.dict[n].v
           /\ sd.rng.n >= 2

\* C10: two SimDefinitions of one dictionary in which MonteCarlo.randomSeed
\* is found hold, after as many resamples each, the same value for every key
\* with a standard deviation
C10_SameSeedSameDraws ==
    (/\ status = "ready"
     /\ nops[1] = nops[2]
     /\ getValue(sd, KeyRandomSeed).found) =>
        \A n \in 1..Len(sd.dict) :
            Probabilistic(sd.dict, sd.dict[n].k) =>
                /\ DictHas(sd2.dict, sd.dict[n].k)
                /\ DictGet(sd2.dict, sd.dict[n].k) = sd.dict[n].v

\* Both have been resampled twice after construction, and a value drawn is
\* not the mean
C10_Witness ==
    /\ status = "ready"
    /\ nops = << MaxOps, MaxOps >>
    /\ getValue(sd, KeyRandomSeed).found
    /\ ~sd.disableDistributionSampling
    /\ \E n \in 1..Len(sd.dict) :
           /\ Probabilistic(sd.dict, sd.dict[n].k)
           /\ DictHas(sd.dict, sd.dict[n].k \o SuffixMean)
           /\ DictGet(sd.dict, sd.dict[n].k \o SuffixMean) # sd.dict[n].v


\* rest has a dot: key path + "." + rest lies two levels or more below path
TwoBelow(path, key) ==
    IF path = <<>> THEN Contains(Dot, key)
    ELSE UnderPath(path, key) /\ Contains(Dot, RestOf(path, key))

\* The names of key up to the one after path
PrefixBelow(path, key) ==
    IF path = <<>> THEN Split(key, ".")[1]
    ELSE path \o Dot \o Split(RestOf(path, key), ".")[1]

DictsBelow(dict, path) ==
    { PrefixBelow(path, dict[n].k) : n \in { m \in 1..Len(dict) : TwoBelow(path, dict[m].k) } }

\* C11: getImmediateSubDicts(P) returns, once each, the prefixes one level
\* below P of the keys that lie two levels or more below P, and nothing else
C11_ImmediateSubDicts ==
    ret.op = "getImmediateSubDicts" =>
        /\ { ret.list[n] : n \in 1..Len(ret.list) } = DictsBelow(sd.dict, ret.key)
        /\ Len(ret.list) = Cardinality(DictsBelow(sd.dict, ret.key))

\* Two sub-dictionaries were returned for a parent that has a plain value
\* too, and two keys in one of the sub-dictionaries
C11_Witness ==
    /\ ret.op = "getImmediateSubDicts"
    /\ ret.key # <<>>
    /\ Len(ret.list) = 2
    /\ \E n \in 1..Len(sd.dict) :
           UnderPath(ret.key, sd.dict[n].k) /\ ~TwoBelow(ret.key, sd.dict[n].k)
    /\ \E n, m \in 1..Len(sd.dict) :
           /\ n # m
           /\ TwoBelow(ret.key, sd.dict[n].k) /\ TwoBelow(ret.key, sd.dict[m].k)
           /\ PrefixBelow(ret.key, sd.dict[n].k) = PrefixBelow(ret.key, sd.dict[m].k)

\* C12: isSubKey(parent, child) is true exactly when parent is empty or child
\* starts with parent followed by a dot
C12_IsSubKey ==
    ret.op = "isSubKey" =>
        (ret.found <=> (ret.key = <<>> \/ StartsWith(ret.value, ret.key \o Dot)))

\* A child that starts with the parent's text, without a dot after it, was
\* found not to be a sub key
C12_Witness ==
    /\ ret.op = "isSubKey"
    /\ ~ret.found
    /\ ret.key # <<>>
    /\ Len(ret.value) > Len(ret.key)
    /\ StartsWith(ret.value, ret.key)

\* C13: setIfAbsent(key, value) leaves the dictionary as it is when it holds
\* the key, as setValue would trim it, already
C13_PresentKeyKept ==
    [][(/\ ret'.op = "setIfAbsent"
        /\ nops'[1] = nops[1] + 1
        /\ DictHas(sd.dict, Strip(ret'.key))) => sd'.dict = sd.dict]_vars

\* C14: findKeysContaining returns every key that contains one or more of
\* the strings given
C14_AnyMatches ==
    ret.op = "findKeysContaining" =>
        \A n \in 1..Len(sd.dict) :
            (\E m \in 1..Len(ret.value) : Contains(ret.value[m], sd.dict[n].k)) =>
                \E j \in 1..Len(ret.list) : ret.list[j] = sd.dict[n].k

\* a and b are one number, or one string when they are no numbers
SameNumber(a, b) ==
    IF ParseFloat(a).ok /\ ParseFloat(b).ok THEN ParseFloat(a).val = ParseFloat(b).val
    ELSE a = b

\* C15: a SimDefinition constructed with disableDistributionSampling=True
\* returns, for every key with a standard deviation, the mean
C15_DisabledGivesMean ==
    (status = "ready" /\ sd.disableDistributionSampling) =>
        \A n \in 1..Len(sd.dict) :
            (/\ Probabilistic(sd.dict, sd.dict[n].k)
             /\ DictHas(sd.dict, sd.dict[n].k \o SuffixMean)) =>
                /\ getValue(sd, sd.dict[n].k).found
                /\ SameNumber(getValue(sd, sd.dict[n].k).value,
                              DictGet(sd.dict, sd.dict[n].k \o SuffixMean))

\* C16: the keys of an included file that the dictionary holds already, under
\* the name they get, end the parse with DuplicateKeyError unless keys may be
\* overwritten
C16_IncludeDuplicateFails ==
    (/\ ev.op = "include"
     /\ ~Fr.allowKeyOverwriting
     /\ \E n \in 1..Len(ev.derivedDict) :
            DictHas(ev.pre, Qualified(Fr.currDictName, ev.derivedDict[n].k))) =>
        status = "DuplicateKeyError"

\* The line parsed next lies in the body of a !create block, or in a
\* dictionary nested in one
InCreateBody == \E n \in 1..Len(Cur.frames) : Cur.frames[n].derived

\* The key of the key-value line parsed next, with its dictionary's name
NextKey == Qualified(Fr.currDictName, SplitWs(Line)[1])

NextValue == Join(Tail(SplitWs(Line)), << " " >>)

\* C17: a key-value line whose key the dictionary holds ends the parse with
\* DuplicateKeyError, and inside the body of a !create block it replaces the
\* value and the parse goes on
C17_DuplicateUnlessInCreateBody ==
    [][(AtLine /\ LineKind = "keyValue" /\ DictHas(Cur.Dict, NextKey)) =>
          IF InCreateBody
          THEN /\ status' = "parsing"
               /\ DictGet(ctxs'[Len(ctxs')].Dict, NextKey) = NextValue
          ELSE /\ status' = "DuplicateKeyError"
               /\ ctxs' = ctxs]_vars

\* A line of a dictionary nested in the body of a !create block has replaced
\* a value, and the dictionary was opened by an ordinary line
C17_Witness ==
    /\ status = "parsing"
    /\ ev.op = "keyValue"
    /\ ~Fr.derived
    /\ InCreateBody
    /\ \E n \in 1..Len(ev.pre) :
           /\ DictHas(Cur.Dict, ev.pre[n].k)
           /\ DictGet(Cur.Dict, ev.pre[n].k) # ev.pre[n].v

\* The first word of the line starts with "!" and is no directive of a
\* !create block
UnknownDirective(splitLine) ==
    /\ Head(splitLine[1]) = "!"
    /\ splitLine[1] \notin { KwReplace, KwRemoveKeysContaining, KwCreate, KwInclude }

\* C18: in a !create block a line whose first word starts with "!" and is
\* neither !replace nor !removeKeysContaining ends the parse with
\* UnknownDirectiveError, indented or not
C18_UnknownDirectiveFails ==
    [][(AtLine /\ InCreateBody /\ UnknownDirective(SplitWs(Line))) =>
          status' = "UnknownDirectiveError"]_vars

\* The dictionaries a text leaves open: a line that ends with "{" opens one,
\* the line "}" closes the innermost
RECURSIVE OpenAfter(_, _)
OpenAfter(lines, open) ==
    IF lines = <<>> THEN open
    ELSE IF Strip(Head(lines)) = << "}" >>
    THEN OpenAfter(Tail(lines), Take(open, Len(open) - 1))
    ELSE IF EndsWith(Strip(Head(lines)), << "{" >>)
    THEN OpenAfter(Tail(lines),
                   Append(open, Take(Strip(Head(lines)), Len(Strip(Head(lines))) - 1)))
    ELSE OpenAfter(Tail(lines), open)

\* C19: when the line of a key has been written, the dictionaries open in
\* the text are those of the key's path
C19_OpenPathIsKeyPath ==
    (status = "writing" /\ wr.n > 0) =>
        OpenAfter(Split(wr.out, "\n"), <<>>) = DictsOf(wr.sortedDict[wr.n])

\* The files whose construction is in progress
LoadChain == { ctxs[n].fileName : n \in 1..Len(ctxs) }

\* The path the line parsed asks to load, as _loadSubSimDefinition resolves it
RequestedPaths ==
    { getAbsoluteFilePath(files, path, PathStr(PathParent(PathParts(Cur.fileName)))) :
      path \in PathsOfLine(RawLine) }

\* C20: while files are parsed the parse stack holds the files whose load is
\* in progress and no other, and a load fails as circular only for a file of
\* that chain
C20_StackIsChain ==
    /\ status = "parsing" => simDefParseStack = LoadChain
    /\ status = "CircularIncludeError" => RequestedPaths \subseteq LoadChain

\* A file has been included a second time, after its first load returned,
\* and the parse goes on
C20_Witness ==
    /\ status = "parsing"
    /\ ev.op = "include"
    /\ ev.derivedDict # <<>>
    /\ Fr.currDictName # <<>>
    /\ \A n \in 1..Len(ev.derivedDict) : DictHas(ev.pre, ev.derivedDict[n].k)
    /\ simDefParseStack = { sd.fileName }

\* C21: after any calls of getValue, setValue, setIfAbsent, removeKey and
\* resampleProbabilisticValues every key of unaccessedFields is a key of the
\* dictionary, and every key of defaultValuesUsed is a key of the default
\* dictionary
C21_TrackersWithinTables ==
    status = "ready" =>
        /\ sd.unaccessedFields \subseteq KeySet(sd.dict)
        /\ sd.defaultValuesUsed \subseteq KeySet(sd.defaultDict)

\* The lines of the text that follow the line at which the parse stopped
LinesLeft == Len(Cur.workingText) - (Cur.i + 1)

\* C22: when the parse of a file returns its dictionary no line of the
\* preprocessed text is left unread
C22_ParsedConsumesAll == Parsed => LinesLeft <= 0

====
